---------------------------- MODULE Spec2Model ----------------------------
(***************************************************************************)
(* Model of the client deployment scripts:                                 *)
(*   scripts/client_config_maker.py    identity rewrite + parameter store  *)
(*   scripts/insert_download_rules.py  download rule rows                  *)
(*   scripts/insert_enrichment_rules.py enrichment rule rows               *)
(*   scripts/deploy_master.py          the orchestrator                    *)
(*                                                                         *)
(* Conventions.  A Python str is a sequence of tokens (TLA+ strings); the  *)
(* token "secret." is the literal prefix the rewriter looks for and no     *)
(* other token contains it.  f-strings are concatenations.  A JSON object  *)
(* with author-chosen keys (an ordered dict) is a sequence of <<key, value>>*)
(* pairs with pairwise different keys; a JSON object with known field      *)
(* names is a function whose DOMAIN is the set of fields present.  A JSON  *)
(* value whose type the code inspects is tagged: [t |-> "str", v |-> ..].  *)
(* The n-th random identifier drawn in a run is the token Hex16(n).        *)
(***************************************************************************)
EXTENDS Naturals, Sequences, FiniteSets, TLC

VARIABLES
    pc,        \* control position of the running script
    entry,     \* script started: "master" | "config" | "download" | "enrichment"
    dry_run,   \* --dry-run
    files,     \* input files as read so far
    hexCount,  \* random identifiers drawn so far
    cc,        \* locals of create_client_config
    rd,        \* locals of run_download_rules_insertion
    dl,        \* locals of insert_download_rules
    en,        \* locals of insert_enrichment_rules
    mn,        \* locals of main
    ssm,       \* parameter store: calls made, in order, with their outcome
    ddb,       \* table store: calls made, in order, with their outcome
    out,       \* dry-run inspection files written, in order
    failures   \* remote calls that failed so far

vars == <<pc, entry, dry_run, files, hexCount, cc, rd, dl, en, mn, ssm, ddb, out, failures>>

-----------------------------------------------------------------------------
(* Bounds of the model *)

MaxFailures == 2
MaxEnvs == 2
MaxRules == 3

-----------------------------------------------------------------------------
(* Values *)

Str(toks) == [t |-> "str", v |-> toks]
Num(n) == [t |-> "num", v |-> n]
Null == [t |-> "null", v |-> <<>>]
None == <<>>

\* Python truthiness of a tagged JSON value
Truthy(val) ==
    CASE val.t = "str" -> val.v # <<>>
      [] val.t = "num" -> val.v # 0
      [] OTHER -> FALSE

\* ordered dicts: sequences of <<key, value>>
Keys(d) == [i \in 1..Len(d) |-> d[i][1]]
Has(d, k) == \E i \in 1..Len(d) : d[i][1] = k
Get(d, k) == d[CHOOSE i \in 1..Len(d) : d[i][1] = k][2]
GetOr(d, k, dflt) == IF Has(d, k) THEN Get(d, k) ELSE dflt
Put(d, k, val) ==
    IF Has(d, k)
    THEN [i \in 1..Len(d) |-> IF d[i][1] = k THEN <<k, val>> ELSE d[i]]
    ELSE Append(d, <<k, val>>)

\* objects with known field names
Ext(f, k, val) == [x \in (DOMAIN f) \cup {k} |-> IF x = k THEN val ELSE f[x]]
Del(f, k) == [x \in (DOMAIN f) \ {k} |-> f[x]]

Range(s) == {s[i] : i \in 1..Len(s)}

-----------------------------------------------------------------------------
(* client_config_maker.py: identifiers and the identity rewrite *)

Hex16(n) == "hex" \o ToString(n)

GenerateConfigId(client_tag, label, n) ==
    client_tag \o <<"-">> \o label \o <<"-">> \o <<Hex16(n)>>

SECRET_PREFIX == "secret."

StartsWithSecret(s) == Len(s) > 0 /\ s[1] = SECRET_PREFIX

\* str.replace("secret.", ""): every occurrence is removed
ReplaceSecret(s) == SelectSeq(s, LAMBDA tok : tok # SECRET_PREFIX)

ClientParamName(client_id) ==
    <<"/spec/enrichment/clients/">> \o client_id \o <<"/config">>

EnvParamName(client_id, env_id) ==
    <<"/spec/enrichment/clients/">> \o client_id \o <<"/envs/">> \o env_id \o <<"/config">>

SecretParamName(client_id, env_id, secret_name) ==
    <<"/spec/enrichment/clients/">> \o client_id \o <<"/envs/">> \o env_id
        \o <<"/secrets/">> \o secret_name

\* the test of line 72, up to the call of startswith
FieldChecked(connection, field) ==
    field \in DOMAIN connection /\ Truthy(connection[field])

\* connection[field].startswith on a value that is no str: AttributeError
FieldRaises(connection, field) ==
    FieldChecked(connection, field) /\ connection[field].t # "str"

RewriteSecretField(connection, field, client_id, env_id) ==
    IF FieldChecked(connection, field) /\ connection[field].t = "str"
       /\ StartsWithSecret(connection[field].v)
    THEN [connection EXCEPT ![field] =
            Str(SecretParamName(client_id, env_id, ReplaceSecret(connection[field].v)))]
    ELSE connection

RewriteConnection(connection, new_id, client_id, env_id) ==
    RewriteSecretField(
        RewriteSecretField(Ext(connection, "id", Str(new_id)), "password", client_id, env_id),
        "client_secret", client_id, env_id)

ConnectionRaises(connection) ==
    FieldRaises(connection, "password") \/ FieldRaises(connection, "client_secret")

\* faulty variant: the reference is left as the symbolic key
ResolveConnRefVerbatim(original_conn_key, connection_key_to_id_map) == original_conn_key

\* faulty variant: a reference without a connection is looked up all the same
ResolveConnRefStrict(original_conn_key, connection_key_to_id_map) ==
    IF Has(connection_key_to_id_map, original_conn_key)
    THEN Get(connection_key_to_id_map, original_conn_key)
    ELSE None

\* lines 102-104
ResolveConnRef(original_conn_key, connection_key_to_id_map) ==
    IF Has(connection_key_to_id_map, original_conn_key)
    THEN Get(connection_key_to_id_map, original_conn_key)
    ELSE original_conn_key

RewritePipeline(pipeline, new_id, connection_key_to_id_map) ==
    LET p == Ext(pipeline, "id", new_id)
    IN  IF "connections" \in DOMAIN p /\ p.connections # <<>>
        THEN [p EXCEPT !.connections =
                [k \in 1..Len(@) |->
                    <<@[k][1], ResolveConnRef(@[k][2], connection_key_to_id_map)>>]]
        ELSE p

\* update_config_ids with h identifiers drawn before the call.  The result
\* carries the three returned values, the number of identifiers drawn, and
\* whether the call raised instead of returning.
UpdateConfigIds(config, client_tag, client_id, env_id, h) ==
    LET hasConns == "connections" \in DOMAIN config /\ config.connections # <<>>
        conns == IF hasConns THEN config.connections ELSE <<>>
        nC == Len(conns)
        conId(i) == GenerateConfigId(client_tag, <<"con">>, h + i)
        connection_key_to_id_map == [i \in 1..nC |-> <<conns[i][1], conId(i)>>]
        new_connections ==
            [i \in 1..nC |->
                <<conId(i), RewriteConnection(conns[i][2], conId(i), client_id, env_id)>>]
        config1 == IF hasConns THEN [config EXCEPT !.connections = new_connections]
                   ELSE config
        hasPipes == "pipelines" \in DOMAIN config /\ config.pipelines # <<>>
        pipes == IF hasPipes THEN config.pipelines ELSE <<>>
        nP == Len(pipes)
        pipeId(j) == GenerateConfigId(client_tag, <<"pipe">>, h + nC + j)
        new_pipelines ==
            [j \in 1..nP |->
                <<pipeId(j), RewritePipeline(pipes[j][2], pipeId(j), connection_key_to_id_map)>>]
        config2 == IF hasPipes THEN [config1 EXCEPT !.pipelines = new_pipelines]
                   ELSE config1
    IN  [config |-> config2,
         pipeline_ids |-> [j \in 1..nP |-> pipeId(j)],
         pipeline_key_to_id_map |-> [j \in 1..nP |-> <<pipes[j][1], pipeId(j)>>],
         drawn |-> nC + nP,
         raised |-> \E i \in 1..nC : ConnectionRaises(conns[i][2])]

-----------------------------------------------------------------------------
(* Input files *)

Unread == [st |-> "unread"]
Json(data) == [st |-> "ok", data |-> data]
BadJson == [st |-> "badjson"]
Missing == [st |-> "missing"]

ClientWithTag == [tag |-> <<"acme">>, name |-> <<"Acme Corp">>]
ClientNoTag == [name |-> <<"Acme Corp">>]

ClientFiles == {Json(ClientWithTag), Json(ClientNoTag), BadJson}

PipeOn(conn_key) == [connections |-> << <<<<"source">>, conn_key>> >>]

EnvProd ==
    [tag |-> <<"prd">>,
     secret |-> << <<<<"db_pw">>, <<"hunter2">>>>, <<<<"api_key">>, <<"k123">>>> >>,
     connections |->
        << <<<<"db">>, [host |-> Str(<<"db.example">>),
                        password |-> Str(<<SECRET_PREFIX, "db_pw">>)]>> >>,
     pipelines |-> << <<<<"p1">>, PipeOn(<<"db">>)>>, <<<<"p2">>, PipeOn(<<"nosuch">>)>> >>]

EnvDev ==
    [tag |-> <<"dev">>,
     secret |-> << <<<<"token">>, <<"t0">>>> >>,
     pipelines |-> << <<<<"p1">>, [schedule |-> <<"daily">>]>> >>]

EnvNoTag == [pipelines |-> << <<<<"p1">>, [schedule |-> <<"daily">>]>> >>]

EnvBadPassword ==
    [tag |-> <<"qa">>,
     connections |-> << <<<<"db">>, [password |-> Num(5)]>> >>]

EnvPool ==
    { <<<<"prod">>, EnvProd>>, <<<<"dev">>, EnvDev>>,
      <<<<"stage">>, EnvNoTag>>, <<<<"qa">>, EnvBadPassword>> }

\* environments.json for an orchestrated run: up to MaxEnvs environments
EnvFilesMaster ==
    { Json(s) : s \in { q \in UNION { [1..k -> EnvPool] : k \in 0..MaxEnvs } :
                          \A i, j \in 1..Len(q) : i # j => q[i][1] # q[j][1] } }
        \cup {BadJson}

\* environments.json for a stand-alone run of client_config_maker.py: one
\* environment "prod" with two secrets, a connection "db" whose secret-bearing
\* fields vary, an optional connection "api", and a pipeline whose references
\* vary
SecretNames == { <<"db_pw">>, <<"my.", SECRET_PREFIX, "key">> }

PasswordValues ==
    { Str(<<"plain">>), Str(<<>>), Num(0), Num(5),
      Str(<<SECRET_PREFIX, "db_pw">>),
      Str(<<SECRET_PREFIX, "my.", SECRET_PREFIX, "key">>),
      Str(<<SECRET_PREFIX, "missing">>),
      Str(<<"see ", SECRET_PREFIX, "db_pw">>) }

ClientSecretValues ==
    { Str(<<SECRET_PREFIX, "db_pw">>), Str(<<SECRET_PREFIX, "my.", SECRET_PREFIX, "key">>) }

Absent == [t |-> "absent", v |-> <<>>]

\* the object {field: value, ...} of the fields given a value
ObjectOf(fields) == [x \in {y \in DOMAIN fields : fields[y] # Absent} |-> fields[x]]

ConnRefs == { <<"db">>, <<"api">>, <<"nosuch">> }

EnvWith(password, client_secret, with_api, source, sink) ==
    [tag |-> <<"prd">>,
     secret |-> << <<<<"db_pw">>, <<"hunter2">>>>,
                   <<<<"my.", SECRET_PREFIX, "key">>, <<"s3cr3t">>>> >>,
     connections |->
        << <<<<"db">>, ObjectOf([host |-> Str(<<"db.example">>), password |-> password,
                                client_secret |-> client_secret])>> >>
        \o (IF with_api THEN << <<<<"api">>, [host |-> Str(<<"api.example">>)]>> >> ELSE <<>>),
     pipelines |->
        << <<<<"p1">>, [connections |-> << <<<<"source">>, source>>, <<<<"sink">>, sink>> >>]>> >>]

EnvFilesConfig ==
    { Json(<< <<<<"prod">>, EnvWith(pw, cs, api, source, sink)>> >>) :
        pw \in PasswordValues \cup {Absent}, cs \in ClientSecretValues \cup {Absent},
        api \in BOOLEAN, source \in ConnRefs, sink \in ConnRefs }
        \cup EnvFilesMaster

-----------------------------------------------------------------------------
(* Remote stores and dry-run files *)

\* json.dumps(obj, separators=(',', ':')) and json.dump(obj, f, indent=2)
DumpsCompact(obj) == [fmt |-> "compact", json |-> obj]
DumpIndent2(obj) == [fmt |-> "indent2", json |-> obj]

PutParameter(name, value, type, ok) ==
    [op |-> "put_parameter", name |-> name, value |-> value, type |-> type, ok |-> ok]

DescribeCall(op, ok) == [op |-> op, ok |-> ok]

FileWrite(name, content) == [file |-> name, content |-> content]

\* a remote call may fail while the failure budget lasts
Outcomes == IF failures < MaxFailures THEN {TRUE, FALSE} ELSE {TRUE}
Count(ok) == IF ok THEN failures ELSE failures + 1

Fail(error) == [success |-> FALSE, error |-> error]

\* main passes a dry-run output directory; the stand-alone scripts pass none
HasOutputDir == dry_run /\ entry = "master"

-----------------------------------------------------------------------------
(* client_config_maker.py: create_client_config *)

rdInit == [calls |-> <<>>, idx |-> 0, overall_success |-> TRUE]
dlInit == [env_id |-> None, client_id |-> None, pipeline_id |-> None, pipeline_key |-> None,
           rules |-> <<>>, rule_guid |-> None, i |-> 0,
           successful_inserts |-> 0, failed_inserts |-> 0, dry_run_items |-> <<>>,
           result |-> None]
enInit == [environment_id_map |-> None, client_id |-> None,
           dynamo_items |-> <<>>, readable_items |-> <<>>, i |-> 0,
           successful |-> 0, failed |-> 0, result |-> None]
mnInit == [skip_rules |-> FALSE, skip_enrichment_rules |-> FALSE,
           rules_success |-> TRUE, enrichment_success |-> TRUE,
           enrichment_result |-> None, exit_status |-> 0]
filesInit == [client |-> Unread, environments |-> Unread,
              download_rules |-> Unread, enrichment_rules |-> Unread]

ccInit ==
    [client_id |-> None, client_tag |-> None, client_config |-> None,
     envIdx |-> 0, env_key |-> None, env_id |-> None, env_config |-> None,
     env_secrets |-> None, secIdx |-> 0, secrets_output |-> <<>>,
     environment_ids |-> <<>>, pipeline_ids |-> <<>>, pipeline_key_maps |-> <<>>,
     result |-> None]

EnvFiles == IF entry = "master" THEN EnvFilesMaster ELSE EnvFilesConfig

\* faulty variant: the parameter store is tested in a dry run too
TestsConnectionAlways(dry) == TRUE

\* line 134: the parameter store is tested unless the run is a dry run
TestsConnection(dry) == ~dry

\* lines 112-141: input checks and the connectivity test
CC_Connect ==
    /\ pc = "cc_connect"
    /\ \/ /\ cc' = [cc EXCEPT !.result = Fail("missing_input")]
          /\ pc' = "cc_returned"
          /\ UNCHANGED <<ssm, failures>>
       \/ /\ ~TestsConnection(dry_run)
          /\ pc' = "cc_load"
          /\ UNCHANGED <<cc, ssm, failures>>
       \/ /\ TestsConnection(dry_run)
          /\ \E ok \in Outcomes :
                /\ ssm' = Append(ssm, DescribeCall("describe_parameters", ok))
                /\ failures' = Count(ok)
                /\ IF ok
                   THEN pc' = "cc_load" /\ cc' = cc
                   ELSE /\ pc' = "cc_returned"
                        /\ cc' = [cc EXCEPT !.result = Fail("ssm_connect")]
    /\ UNCHANGED <<entry, dry_run, files, hexCount, rd, dl, en, mn, ddb, out>>

\* faulty variant: the tag read with a default instead of the check of line 157
ClientTagOfDefaulted(client_config) ==
    [present |-> TRUE,
     tag |-> IF "tag" \in DOMAIN client_config THEN client_config.tag ELSE <<"None">>]

\* lines 157-160: the tag of client.json, when it has one
ClientTagOf(client_config) ==
    IF "tag" \in DOMAIN client_config
    THEN [present |-> TRUE, tag |-> client_config.tag]
    ELSE [present |-> FALSE, tag |-> None]

\* lines 143-167: read both files, check the tag, generate the client id
CC_LoadClient ==
    /\ pc = "cc_load"
    /\ \E cf \in (IF files.client = Unread THEN ClientFiles ELSE {files.client}),
          ef \in (IF files.environments = Unread THEN EnvFiles ELSE {files.environments}) :
        /\ files' = [files EXCEPT !.client = cf, !.environments = ef]
        /\ IF cf.st = "badjson" \/ ef.st = "badjson"
           THEN /\ cc' = [cc EXCEPT !.result = Fail("invalid_json")]
                /\ pc' = "cc_returned"
                /\ hexCount' = hexCount
           ELSE IF ~ClientTagOf(cf.data).present
           THEN /\ cc' = [cc EXCEPT !.result = Fail("tag_missing")]
                /\ pc' = "cc_returned"
                /\ hexCount' = hexCount
           ELSE LET client_tag == ClientTagOf(cf.data).tag
                    client_id == GenerateConfigId(client_tag, <<"cid">>, hexCount + 1)
                IN  /\ cc' = [cc EXCEPT !.client_tag = client_tag,
                                        !.client_id = client_id,
                                        !.client_config = Ext(cf.data, "id", client_id)]
                    /\ hexCount' = hexCount + 1
                    /\ pc' = "cc_client_param"
    /\ UNCHANGED <<entry, dry_run, rd, dl, en, mn, ssm, ddb, out, failures>>

\* faulty variant: a failed write of the client parameter is only reported
ClientParamNeverFatal(ok) == FALSE

\* lines 174-175: a failed write of the client parameter ends the call
ClientParamFatal(ok) == ~ok

\* lines 169-188: the client configuration parameter
CC_ClientParam ==
    /\ pc = "cc_client_param"
    /\ IF ~dry_run
       THEN \E ok \in Outcomes :
                /\ ssm' = Append(ssm, PutParameter(ClientParamName(cc.client_id),
                                        DumpsCompact(cc.client_config), "String", ok))
                /\ failures' = Count(ok)
                /\ out' = out
                /\ IF ClientParamFatal(ok)
                   THEN /\ pc' = "cc_returned"
                        /\ cc' = [cc EXCEPT !.result = Fail("client_param")]
                   ELSE pc' = "cc_env" /\ cc' = [cc EXCEPT !.envIdx = 1]
       ELSE /\ out' = IF HasOutputDir
                      THEN Append(out, FileWrite(<<"client_config.json">>,
                                                 DumpIndent2(cc.client_config)))
                      ELSE out
            /\ pc' = "cc_env"
            /\ cc' = [cc EXCEPT !.envIdx = 1]
            /\ UNCHANGED <<ssm, failures>>
    /\ UNCHANGED <<entry, dry_run, files, hexCount, rd, dl, en, mn, ddb>>

\* after the body of the loop of line 191 for one environment
\* faulty variant: the secret mapping stays in the stored configuration
StripSecretKept(env_config) == env_config

\* lines 203-206: the secret section is removed from the configuration
StripSecret(env_config) ==
    IF "secret" \in DOMAIN env_config THEN Del(env_config, "secret") ELSE env_config

NextEnv(c) == [c EXCEPT !.envIdx = @ + 1, !.secIdx = 0, !.secrets_output = <<>>]

\* faulty variant: the secrets follow even a failed configuration write
EnvParamNeverSkips(ok) == FALSE

\* lines 217-220: a failed configuration write skips the rest of the environment
EnvParamSkips(ok) == ~ok

\* lines 191-228: one environment up to its configuration parameter
CC_Env ==
    /\ pc = "cc_env"
    /\ cc.envIdx <= Len(files.environments.data)
    /\ LET env_key == files.environments.data[cc.envIdx][1]
           env_config == files.environments.data[cc.envIdx][2]
       IN
       IF "tag" \notin DOMAIN env_config
       THEN \* KeyError at line 195, caught at line 267
            /\ cc' = [cc EXCEPT !.result = Fail("exception")]
            /\ pc' = "cc_returned"
            /\ UNCHANGED <<hexCount, ssm, out, failures>>
       ELSE
       LET env_id == GenerateConfigId(cc.client_tag, env_config.tag, hexCount + 1)
           with_id == Ext(env_config, "id", env_id)
           env_secrets == IF "secret" \in DOMAIN with_id THEN with_id.secret ELSE None
           stripped == StripSecret(with_id)
           u == UpdateConfigIds(stripped, cc.client_tag, cc.client_id, env_id, hexCount + 1)
           tracked == [cc EXCEPT !.env_key = env_key, !.env_id = env_id,
                                 !.env_config = u.config, !.env_secrets = env_secrets,
                                 !.secIdx = 1, !.secrets_output = <<>>,
                                 !.environment_ids = Put(@, env_key, env_id),
                                 !.pipeline_ids = Put(@, env_key, u.pipeline_ids),
                                 !.pipeline_key_maps = Put(@, env_key, u.pipeline_key_to_id_map)]
           after == IF env_secrets # <<>> THEN "cc_secret" ELSE "cc_env"
           onward == IF env_secrets # <<>> THEN tracked ELSE NextEnv(tracked)
       IN
       IF u.raised
       THEN \* AttributeError at line 72, caught at line 267
            /\ cc' = [cc EXCEPT !.result = Fail("exception")]
            /\ pc' = "cc_returned"
            /\ UNCHANGED <<hexCount, ssm, out, failures>>
       ELSE
       /\ hexCount' = hexCount + 1 + u.drawn
       /\ IF ~dry_run
          THEN \E ok \in Outcomes :
                /\ ssm' = Append(ssm, PutParameter(EnvParamName(cc.client_id, env_id),
                                        DumpsCompact(u.config), "String", ok))
                /\ failures' = Count(ok)
                /\ out' = out
                /\ IF ~EnvParamSkips(ok)
                   THEN pc' = after /\ cc' = onward
                   ELSE \* line 220: continue
                        pc' = "cc_env" /\ cc' = NextEnv(tracked)
          ELSE /\ out' = IF HasOutputDir
                         THEN Append(out, FileWrite(<<"environment_">> \o env_key \o <<"_config.json">>,
                                                    DumpIndent2(u.config)))
                         ELSE out
               /\ pc' = after
               /\ cc' = onward
               /\ UNCHANGED <<ssm, failures>>
    /\ UNCHANGED <<entry, dry_run, files, rd, dl, en, mn, ddb>>

\* lines 234-248: one secret of the current environment; after the last one
\* the dry-run secrets file and the next environment
CC_Secret ==
    /\ pc = "cc_secret"
    /\ LET secret_key == cc.env_secrets[cc.secIdx][1]
           secret_value == cc.env_secrets[cc.secIdx][2]
           last == cc.secIdx = Len(cc.env_secrets)
           secrets_output == IF dry_run THEN Put(cc.secrets_output, secret_key, secret_value)
                             ELSE cc.secrets_output
           stepped == [cc EXCEPT !.secIdx = @ + 1, !.secrets_output = secrets_output]
       IN
       /\ IF ~dry_run
          THEN \E ok \in Outcomes :
                /\ ssm' = Append(ssm, PutParameter(
                                        SecretParamName(cc.client_id, cc.env_id, secret_key),
                                        secret_value, "SecureString", ok))
                /\ failures' = Count(ok)
          ELSE UNCHANGED <<ssm, failures>>
       /\ out' = IF last /\ HasOutputDir /\ secrets_output # <<>>
                 THEN Append(out, FileWrite(<<"environment_">> \o cc.env_key \o <<"_secrets.json">>,
                                            DumpIndent2(secrets_output)))
                 ELSE out
       /\ cc' = IF last THEN NextEnv(stepped) ELSE stepped
       /\ pc' = IF last THEN "cc_env" ELSE "cc_secret"
    /\ UNCHANGED <<entry, dry_run, files, hexCount, rd, dl, en, mn, ddb>>

\* lines 250-261: every environment was visited
CC_Return ==
    /\ pc = "cc_env"
    /\ cc.envIdx > Len(files.environments.data)
    /\ cc' = [cc EXCEPT !.result =
                [success |-> TRUE, client_id |-> cc.client_id, client_tag |-> cc.client_tag,
                 environment_ids |-> cc.environment_ids, pipeline_ids |-> cc.pipeline_ids,
                 pipeline_key_maps |-> cc.pipeline_key_maps,
                 total_environments |-> Len(files.environments.data)]]
    /\ pc' = "cc_returned"
    /\ UNCHANGED <<entry, dry_run, files, hexCount, rd, dl, en, mn, ssm, ddb, out, failures>>

\* client_config_maker.py main, lines 280-292
CCMain_Exit ==
    /\ pc = "cc_returned"
    /\ entry = "config"
    /\ mn' = [mn EXCEPT !.exit_status = IF cc.result.success THEN 0 ELSE 1]
    /\ pc' = "exit"
    /\ UNCHANGED <<entry, dry_run, files, hexCount, cc, rd, dl, en, ssm, ddb, out, failures>>

-----------------------------------------------------------------------------
(* insert_download_rules.py *)

Obj(f) == [t |-> "obj", v |-> f]

Digits == <<"0", "1", "2", "3", "4", "5", "6", "7", "8", "9">>

\* str(n) of a non-negative int, one token per digit
RECURSIVE IntToStr(_)
IntToStr(n) ==
    IF n < 10 THEN <<Digits[n + 1]>> ELSE IntToStr(n \div 10) \o <<Digits[(n % 10) + 1]>>

\* str(uuid.uuid4()): the n-th random identifier of the run
Uuid4(n) == <<"uuid" \o ToString(n)>>

\* faulty variant: the rules numbered from 0
GenerateRuleIdZeroBased(guid, rule_num) == guid \o <<"#rule_">> \o IntToStr(rule_num - 1)

\* generate_rule_id
GenerateRuleId(guid, rule_num) == guid \o <<"#rule_">> \o IntToStr(rule_num)

\* rule_data.get(field, '')
FieldOrEmpty(rule_data, field) ==
    IF rule_data.t = "obj" /\ field \in DOMAIN rule_data.v /\ rule_data.v[field].t = "str"
    THEN rule_data.v[field].v
    ELSE <<>>

ConvertToDynamodbItem(rule_data, rule_id, env_id, client_id, pipeline_id) ==
    [rule_id |-> [S |-> rule_id],
     env_id |-> [S |-> env_id],
     client_id |-> [S |-> client_id],
     pipeline_id |-> [S |-> pipeline_id],
     description |-> [S |-> FieldOrEmpty(rule_data, "description")],
     type |-> [S |-> FieldOrEmpty(rule_data, "type")],
     values |-> [S |-> FieldOrEmpty(rule_data, "values")]]

\* faulty variant: the readable rule id taken from the wrong attribute
ReadableItemMisread(dynamodb_item) ==
    [rule_id |-> dynamodb_item.pipeline_id.S,
     env_id |-> dynamodb_item.env_id.S,
     client_id |-> dynamodb_item.client_id.S,
     pipeline_id |-> dynamodb_item.pipeline_id.S,
     description |-> dynamodb_item.description.S,
     type |-> dynamodb_item.type.S,
     values |-> dynamodb_item.values.S]

\* lines 165-173
ReadableItem(dynamodb_item) ==
    [rule_id |-> dynamodb_item.rule_id.S,
     env_id |-> dynamodb_item.env_id.S,
     client_id |-> dynamodb_item.client_id.S,
     pipeline_id |-> dynamodb_item.pipeline_id.S,
     description |-> dynamodb_item.description.S,
     type |-> dynamodb_item.type.S,
     values |-> dynamodb_item.values.S]

RequiredFields == {"description", "type", "values"}

\* validate_rule_data, called on a dict
ValidateRuleData(rule_data) ==
    /\ RequiredFields \subseteq DOMAIN rule_data.v
    /\ \A field \in RequiredFields : rule_data.v[field].t = "str"

\* lines 129-133 for one record
RuleValid(rule_data) == rule_data.t = "obj" /\ ValidateRuleData(rule_data)

\* faulty variant: only the first record is validated before the writes begin
ValidationFailsOnFirst(rules_data) == ~RuleValid(rules_data[1])

\* lines 128-133: some record of the list is rejected
ValidationFails(rules_data) == \E i \in 1..Len(rules_data) : ~RuleValid(rules_data[i])

\* rule.get('pipeline') == pipeline_key, on a dict
PipelineMatches(rule, pipeline_key) ==
    /\ "pipeline" \in DOMAIN rule.v
    /\ rule.v["pipeline"].t = "str"
    /\ rule.v["pipeline"].v = pipeline_key

\* line 117
FilterRules(rules_data, pipeline_key) ==
    SelectSeq(rules_data, LAMBDA rule : PipelineMatches(rule, pipeline_key))

\* line 117 raises AttributeError on a record that has no .get
FilterRaises(rules_data) == \E i \in 1..Len(rules_data) : rules_data[i].t # "obj"

PutItem(table, item, ok) == [op |-> "put_item", table |-> table, item |-> item, ok |-> ok]
DescribeTable(table, ok) == [op |-> "describe_table", table |-> table, ok |-> ok]

DOWNLOAD_TABLE == "spec-download-rule"
ENRICHMENT_TABLE == "spec-enrichment-rule"

Counters(total, successful, failed, guid) ==
    [success |-> TRUE, total_rules |-> total, successful_inserts |-> successful,
     failed_inserts |-> failed, rule_guid |-> guid]

List(v) == [t |-> "list", v |-> v]

DownloadRule(description, pipeline) ==
    Obj([description |-> Str(<<description>>), type |-> Str(<<"regex">>),
         values |-> Str(<<"*.csv">>), pipeline |-> Str(pipeline)])

RuleP1 == DownloadRule("a", <<"p1">>)
RuleP2 == DownloadRule("b", <<"p2">>)
RuleNoPipeline ==
    Obj([description |-> Str(<<"c">>), type |-> Str(<<"glob">>), values |-> Str(<<"*">>)])
RuleMissingValues ==
    Obj([description |-> Str(<<"d">>), type |-> Str(<<"regex">>), pipeline |-> Str(<<"p1">>)])
RuleNumericType ==
    Obj([description |-> Str(<<"e">>), type |-> Num(7), values |-> Str(<<"x">>),
         pipeline |-> Str(<<"p2">>)])
RuleNotObject == Str(<<"oops">>)

RulePool == {RuleP1, RuleP2, RuleNoPipeline, RuleMissingValues, RuleNumericType, RuleNotObject}

\* download_rules.json for one invocation of insert_download_rules
DownloadFiles ==
    { Json(List(q)) : q \in UNION { [1..k -> RulePool] : k \in 0..MaxRules } }
        \cup {Json(Obj([rules |-> <<>>])), BadJson, Missing}

\* download_rules.json for an orchestrated run
DownloadFilesMaster ==
    { Json(List(<<RuleP1, RuleP2, RuleP1>>)),
      Json(List(<<RuleP1, RuleNumericType, RuleNoPipeline>>)),
      Json(List(<<>>)), Missing }

\* pipeline_id.replace('/', '_').replace('\\', '_')
SafePipelineId(pipeline_id) ==
    [i \in 1..Len(pipeline_id) |->
        IF pipeline_id[i] \in {"/", "\\"} THEN "_" ELSE pipeline_id[i]]

\* lines 100-142, after the connectivity test: read, filter, validate, guid
DL_Prepare(file) ==
    IF file.st = "badjson" THEN
        /\ dl' = [dl EXCEPT !.result = Fail("invalid_json")]
        /\ pc' = "dl_returned" /\ hexCount' = hexCount
    ELSE IF file.data.t # "list" THEN
        /\ dl' = [dl EXCEPT !.result = Fail("not_array")]
        /\ pc' = "dl_returned" /\ hexCount' = hexCount
    ELSE IF file.data.v = <<>> THEN
        /\ dl' = [dl EXCEPT !.result = Counters(0, 0, 0, None)]
        /\ pc' = "dl_returned" /\ hexCount' = hexCount
    ELSE IF dl.pipeline_key # <<>> /\ FilterRaises(file.data.v) THEN
        /\ dl' = [dl EXCEPT !.result = Fail("exception")]
        /\ pc' = "dl_returned" /\ hexCount' = hexCount
    ELSE
    LET rules_data == IF dl.pipeline_key # <<>>
                      THEN FilterRules(file.data.v, dl.pipeline_key)
                      ELSE file.data.v
    IN  IF rules_data = <<>> THEN
            /\ dl' = [dl EXCEPT !.result = Counters(0, 0, 0, None)]
            /\ pc' = "dl_returned" /\ hexCount' = hexCount
        ELSE IF ValidationFails(rules_data) THEN
            /\ dl' = [dl EXCEPT !.result = Fail("validation")]
            /\ pc' = "dl_returned" /\ hexCount' = hexCount
        ELSE
            /\ dl' = [dl EXCEPT !.rules = rules_data, !.rule_guid = Uuid4(hexCount + 1), !.i = 1]
            /\ hexCount' = hexCount + 1
            /\ pc' = "dl_put"

\* lines 75-142: file check, connectivity test, then the preparation
DL_Start ==
    /\ pc = "dl_start"
    /\ \E file \in (IF files.download_rules = Unread THEN DownloadFiles
                    ELSE {files.download_rules}) :
        /\ files' = [files EXCEPT !.download_rules = file]
        /\ IF file.st = "missing"
           THEN /\ dl' = [dl EXCEPT !.result = Fail("missing_input")]
                /\ pc' = "dl_returned"
                /\ UNCHANGED <<hexCount, ddb, failures>>
           ELSE IF dry_run
           THEN DL_Prepare(file) /\ UNCHANGED <<ddb, failures>>
           ELSE \E ok \in Outcomes :
                /\ ddb' = Append(ddb, DescribeTable(DOWNLOAD_TABLE, ok))
                /\ failures' = Count(ok)
                /\ IF ok THEN DL_Prepare(file)
                   ELSE /\ dl' = [dl EXCEPT !.result = Fail("ddb_connect")]
                        /\ pc' = "dl_returned"
                        /\ hexCount' = hexCount
    /\ UNCHANGED <<entry, dry_run, cc, rd, en, mn, ssm, out>>

\* lines 144-198: one rule; after the last one the dry-run file and the result
DL_Put ==
    /\ pc = "dl_put"
    /\ LET rule_num == dl.i
           rule_id == GenerateRuleId(dl.rule_guid, rule_num)
           dynamodb_item == ConvertToDynamodbItem(dl.rules[dl.i], rule_id,
                                dl.env_id, dl.client_id, dl.pipeline_id)
           last == dl.i = Len(dl.rules)
       IN  \E ok \in (IF dry_run THEN {TRUE} ELSE Outcomes) :
            LET items == IF dry_run THEN Append(dl.dry_run_items, ReadableItem(dynamodb_item))
                         ELSE dl.dry_run_items
                succ == IF ok THEN dl.successful_inserts + 1 ELSE dl.successful_inserts
                failed == IF ok THEN dl.failed_inserts ELSE dl.failed_inserts + 1
                stepped == [dl EXCEPT !.i = @ + 1, !.dry_run_items = items,
                                      !.successful_inserts = succ, !.failed_inserts = failed]
            IN  /\ ddb' = IF dry_run THEN ddb
                          ELSE Append(ddb, PutItem(DOWNLOAD_TABLE, dynamodb_item, ok))
                /\ failures' = Count(ok)
                /\ out' = IF last /\ HasOutputDir /\ items # <<>>
                          THEN Append(out, FileWrite(<<"rules_">> \o SafePipelineId(dl.pipeline_id)
                                                        \o <<".json">>,
                                                     DumpIndent2(items)))
                          ELSE out
                /\ dl' = IF last
                         THEN [stepped EXCEPT !.result =
                                  Counters(Len(dl.rules), succ, failed, dl.rule_guid)]
                         ELSE stepped
                /\ pc' = IF last THEN "dl_returned" ELSE "dl_put"
    /\ UNCHANGED <<entry, dry_run, files, hexCount, cc, rd, en, mn, ssm>>

\* insert_download_rules.py main, lines 240-259
DLMain_Exit ==
    /\ pc = "dl_returned"
    /\ entry = "download"
    /\ mn' = [mn EXCEPT !.exit_status =
                IF dl.result.success
                THEN (IF dl.result.failed_inserts > 0 /\ ~dry_run THEN 1 ELSE 0)
                ELSE 1]
    /\ pc' = "exit"
    /\ UNCHANGED <<entry, dry_run, files, hexCount, cc, rd, dl, en, ssm, ddb, out, failures>>

-----------------------------------------------------------------------------
(* insert_enrichment_rules.py *)

Typed(k, val) == [t |-> "dict", v |-> [x \in {k} |-> val]]

\* str(x) of a JSON string, null or non-negative integer
StrOf(val) ==
    IF val.t = "str" THEN val.v
    ELSE IF val.t = "null" THEN <<"None">>
    ELSE IntToStr(val.v)

DigitValue(tok) == (CHOOSE i \in 1..10 : Digits[i] = tok) - 1

IsDecimal(s) == s # <<>> /\ \A i \in 1..Len(s) : s[i] \in Range(Digits)

RECURSIVE DecimalValue(_)
DecimalValue(s) ==
    IF s = <<>> THEN 0
    ELSE DecimalValue(SubSeq(s, 1, Len(s) - 1)) * 10 + DigitValue(s[Len(s)])

\* raw_item.get(field), with the Dynamo-typed form {key: value} unwrapped
GetUnwrapped(raw_item, field, key) ==
    IF field \notin DOMAIN raw_item.v THEN Null
    ELSE LET val == raw_item.v[field]
         IN  IF val.t = "dict" /\ key \in DOMAIN val.v THEN val.v[key] ELSE val

\* faulty variant: a shorthand key is not mapped to the identifier
ResolveEnvIdVerbatim(raw_env_id, environment_id_map) == StrOf(raw_env_id)

\* lines 18-23
ResolveEnvId(raw_env_id, environment_id_map) ==
    LET env_id == StrOf(raw_env_id)
    IN  IF environment_id_map # <<>> /\ Has(environment_id_map, env_id)
        THEN Get(environment_id_map, env_id)
        ELSE env_id

ResolveClientId(raw_client_id, default_client_id) ==
    IF raw_client_id.t = "null" \/ (raw_client_id.t = "str" /\ raw_client_id.v = <<>>)
    THEN default_client_id
    ELSE StrOf(raw_client_id)

\* int(raw_version) succeeds
VersionIsNumber(raw_version) ==
    \/ raw_version.t = "num"
    \/ raw_version.t = "str" /\ IsDecimal(raw_version.v)

\* _coerce_version: str(int(raw_version))
CoerceVersion(raw_version) ==
    IntToStr(IF raw_version.t = "num" THEN raw_version.v ELSE DecimalValue(raw_version.v))

\* faulty variant: _build_dynamo_item without the check of lines 54-55
BuildErrorEnvOptional(raw_item) ==
    IF raw_item.t # "obj" THEN "item must be a JSON object"
    ELSE IF GetUnwrapped(raw_item, "version", "N").t = "null"
    THEN "version is required"
    ELSE IF ~VersionIsNumber(GetUnwrapped(raw_item, "version", "N"))
    THEN "version is not a number"
    ELSE IF GetUnwrapped(raw_item, "rules_json", "S").t = "null"
    THEN "rules_json is required"
    ELSE ""

\* the ValueError _build_dynamo_item raises for the record, or "" when it returns
BuildError(raw_item) ==
    IF raw_item.t # "obj" THEN "item must be a JSON object"
    ELSE IF GetUnwrapped(raw_item, "environment_id", "S").t = "null"
    THEN "environment_id is required"
    ELSE IF GetUnwrapped(raw_item, "version", "N").t = "null"
    THEN "version is required"
    ELSE IF ~VersionIsNumber(GetUnwrapped(raw_item, "version", "N"))
    THEN "version is not a number"
    ELSE IF GetUnwrapped(raw_item, "rules_json", "S").t = "null"
    THEN "rules_json is required"
    ELSE ""

\* _build_dynamo_item for a record it accepts: [dynamo, readable]
BuildDynamoItem(raw_item, environment_id_map, default_client_id) ==
    LET env_id_value ==
            ResolveEnvId(GetUnwrapped(raw_item, "environment_id", "S"), environment_id_map)
        version_value == CoerceVersion(GetUnwrapped(raw_item, "version", "N"))
        client_id_value ==
            ResolveClientId(GetUnwrapped(raw_item, "client_id", "S"), default_client_id)
        rules_json_value == GetUnwrapped(raw_item, "rules_json", "S")
        dynamo == [environment_id |-> [S |-> env_id_value],
                   version |-> [N |-> version_value],
                   rules_json |-> [S |-> StrOf(rules_json_value)]]
        readable == [environment_id |-> env_id_value,
                     version |-> DecimalValue(version_value),
                     rules_json |-> rules_json_value]
    IN  IF client_id_value # <<>>
        THEN [dynamo |-> Ext(dynamo, "client_id", [S |-> client_id_value]),
              readable |-> Ext(readable, "client_id", client_id_value)]
        ELSE [dynamo |-> dynamo, readable |-> readable]

EnrichmentRule(environment_id, version) ==
    Obj([environment_id |-> environment_id, version |-> version,
         rules_json |-> Str(<<"{}">>)])

EnrichProd3 == EnrichmentRule(Str(<<"prod">>), Str(<<"3">>))
EnrichProd03 == EnrichmentRule(Str(<<"prod">>), Str(<<"0", "3">>))
EnrichRawNum3 == EnrichmentRule(Str(<<"acme", "-", "prd", "-", "hex2">>), Num(3))
EnrichTyped ==
    Obj([environment_id |-> Typed("S", Str(<<"dev">>)), version |-> Typed("N", Str(<<"7">>)),
         rules_json |-> Typed("S", Str(<<"[]">>)), client_id |-> Str(<<"other">>)])
\* the raw identifier of the first environment of a run, version 3, with a
\* payload of its own
EnrichRawLater ==
    Obj([environment_id |-> Str(<<"acme", "-", "prd", "-", "hex2">>), version |-> Num(3),
         rules_json |-> Str(<<"{\"v\":2}">>)])
EnrichAbc == EnrichmentRule(Str(<<"prod">>), Str(<<"a", "b", "c">>))
EnrichNoEnv == Obj([version |-> Str(<<"3">>), rules_json |-> Str(<<"{}">>)])
EnrichNoVersion == Obj([environment_id |-> Str(<<"prod">>), rules_json |-> Str(<<"{}">>)])
EnrichNoRulesJson == Obj([environment_id |-> Str(<<"prod">>), version |-> Str(<<"3">>)])

EnrichPool ==
    {EnrichProd3, EnrichProd03, EnrichRawNum3, EnrichTyped, EnrichAbc,
     EnrichNoEnv, EnrichNoVersion, EnrichNoRulesJson}

\* enrichment_rules.json for one invocation of insert_enrichment_rules
EnrichmentFiles ==
    { Json(List(q)) : q \in UNION { [1..k -> EnrichPool] : k \in 0..MaxRules } }
        \cup {Json(Obj([rules |-> <<>>])), BadJson, Missing}

\* enrichment_rules.json for an orchestrated run
EnrichmentFilesMaster ==
    { Json(List(<<EnrichProd3, EnrichTyped>>)),
      Json(List(<<EnrichProd3, EnrichProd03>>)),
      Json(List(<<EnrichProd3, EnrichTyped, EnrichRawLater>>)),
      Json(List(<<EnrichProd3, EnrichAbc>>)),
      Missing }

\* faulty variant: the flag of the download deployer, true whatever failed
EnrichCountersAlwaysTrue(total, successful, failed) ==
    [success |-> TRUE, total_rules |-> total, successful_inserts |-> successful,
     failed_inserts |-> failed]

\* lines 179-184: the result with counters
EnrichCounters(total, successful, failed) ==
    [success |-> failed = 0, total_rules |-> total, successful_inserts |-> successful,
     failed_inserts |-> failed]

\* lines 139-154 and, for an empty list, lines 156-184
EN_Prepare(file) ==
    IF file.st = "badjson" THEN
        /\ en' = [en EXCEPT !.result = Fail("invalid_json")]
        /\ pc' = "en_returned"
    ELSE IF file.data.t # "list" THEN
        /\ en' = [en EXCEPT !.result = Fail("not_array")]
        /\ pc' = "en_returned"
    ELSE IF \E i \in 1..Len(file.data.v) : BuildError(file.data.v[i]) # "" THEN
        LET first == CHOOSE i \in 1..Len(file.data.v) :
                        /\ BuildError(file.data.v[i]) # ""
                        /\ \A j \in 1..(i - 1) : BuildError(file.data.v[j]) = ""
        IN  /\ en' = [en EXCEPT !.result = Fail(BuildError(file.data.v[first]))]
            /\ pc' = "en_returned"
    ELSE
    LET built == [i \in 1..Len(file.data.v) |->
                    BuildDynamoItem(file.data.v[i], en.environment_id_map, en.client_id)]
        loaded == [en EXCEPT !.dynamo_items = [i \in 1..Len(built) |-> built[i].dynamo],
                             !.readable_items = [i \in 1..Len(built) |-> built[i].readable],
                             !.i = 1]
    IN  IF built = <<>>
        THEN /\ en' = [loaded EXCEPT !.result = EnrichCounters(0, 0, 0)]
             /\ pc' = "en_returned"
        ELSE /\ en' = loaded
             /\ pc' = "en_put"

\* lines 119-154: file check, connectivity test, then the normalisation
EN_Start ==
    /\ pc = "en_start"
    /\ \E file \in (IF files.enrichment_rules = Unread THEN EnrichmentFiles
                    ELSE {files.enrichment_rules}) :
        /\ files' = [files EXCEPT !.enrichment_rules = file]
        /\ IF file.st = "missing"
           THEN /\ en' = [en EXCEPT !.result = Fail("missing_input")]
                /\ pc' = "en_returned"
                /\ UNCHANGED <<ddb, failures>>
           ELSE IF dry_run
           THEN EN_Prepare(file) /\ UNCHANGED <<ddb, failures>>
           ELSE \E ok \in Outcomes :
                /\ ddb' = Append(ddb, DescribeTable(ENRICHMENT_TABLE, ok))
                /\ failures' = Count(ok)
                /\ IF ok THEN EN_Prepare(file)
                   ELSE /\ en' = [en EXCEPT !.result = Fail("ddb_connect")]
                        /\ pc' = "en_returned"
    /\ UNCHANGED <<entry, dry_run, hexCount, cc, rd, dl, mn, ssm, out>>

\* lines 159-184: one item; after the last one the dry-run file and the result
EN_Put ==
    /\ pc = "en_put"
    /\ LET last == en.i = Len(en.dynamo_items)
       IN  \E ok \in (IF dry_run THEN {TRUE} ELSE Outcomes) :
            LET succ == IF ok THEN en.successful + 1 ELSE en.successful
                failed == IF ok THEN en.failed ELSE en.failed + 1
                stepped == [en EXCEPT !.i = @ + 1, !.successful = succ, !.failed = failed]
            IN  /\ ddb' = IF dry_run THEN ddb
                          ELSE Append(ddb, PutItem(ENRICHMENT_TABLE, en.dynamo_items[en.i], ok))
                /\ failures' = Count(ok)
                /\ out' = IF last /\ HasOutputDir
                          THEN Append(out, FileWrite(<<"enrichment_rules.json">>,
                                                     DumpIndent2(en.readable_items)))
                          ELSE out
                /\ en' = IF last
                         THEN [stepped EXCEPT !.result =
                                  EnrichCounters(Len(en.readable_items), succ, failed)]
                         ELSE stepped
                /\ pc' = IF last THEN "en_returned" ELSE "en_put"
    /\ UNCHANGED <<entry, dry_run, files, hexCount, cc, rd, dl, mn, ssm>>

\* insert_enrichment_rules.py main, lines 220-229
ENMain_Exit ==
    /\ pc = "en_returned"
    /\ entry = "enrichment"
    /\ mn' = [mn EXCEPT !.exit_status = IF en.result.success THEN 0 ELSE 1]
    /\ pc' = "exit"
    /\ UNCHANGED <<entry, dry_run, files, hexCount, cc, rd, dl, en, ssm, ddb, out, failures>>

-----------------------------------------------------------------------------
(* deploy_master.py *)

\* {v: k for k, v in pipeline_key_to_id.items()}.get(pipeline_id)
IdToKey(pipeline_key_to_id, pipeline_id) ==
    LET hits == {i \in 1..Len(pipeline_key_to_id) : pipeline_key_to_id[i][2] = pipeline_id}
    IN  IF hits = {} THEN None
        ELSE pipeline_key_to_id[CHOOSE i \in hits : \A j \in hits : j <= i][1]

\* the calls of insert_download_rules the loops of lines 60-91 make for one
\* environment, in order
EnvCalls(client_result, e) ==
    LET env_key == client_result.environment_ids[e][1]
        env_id == client_result.environment_ids[e][2]
        env_pipeline_ids == GetOr(client_result.pipeline_ids, env_key, <<>>)
        pipeline_key_to_id == GetOr(client_result.pipeline_key_maps, env_key, <<>>)
    IN  [k \in 1..Len(env_pipeline_ids) |->
            [env_key |-> env_key, env_id |-> env_id, client_id |-> client_result.client_id,
             pipeline_id |-> env_pipeline_ids[k],
             pipeline_key |-> IdToKey(pipeline_key_to_id, env_pipeline_ids[k])]]

RECURSIVE CallsFrom(_, _)
CallsFrom(client_result, e) ==
    IF e > Len(client_result.environment_ids) THEN <<>>
    ELSE EnvCalls(client_result, e) \o CallsFrom(client_result, e + 1)

\* faulty variant: only the pipelines of the first environment are deployed
DownloadCallsFirstEnv(client_result) ==
    IF client_result.environment_ids = <<>> THEN <<>> ELSE EnvCalls(client_result, 1)

\* lines 53-91: one call for each pipeline of each environment of the result
DownloadCalls(client_result) == CallsFrom(client_result, 1)

Exit(status) ==
    /\ pc' = "exit"
    /\ mn' = [mn EXCEPT !.exit_status = status]

\* main, lines 191-194
M_Start ==
    /\ pc = "m_start"
    /\ \/ Exit(1)
       \/ pc' = "cc_connect" /\ mn' = mn
    /\ UNCHANGED <<entry, dry_run, files, hexCount, cc, rd, dl, en, ssm, ddb, out, failures>>

\* run_client_config_maker lines 28-36 and main lines 204-228
M_AfterConfig ==
    /\ pc = "cc_returned"
    /\ entry = "master"
    /\ IF ~cc.result.success
       THEN Exit(1) /\ UNCHANGED <<files, rd>>
       ELSE IF mn.skip_rules
            THEN /\ mn' = mn
                 /\ pc' = "m_enrich"
                 /\ UNCHANGED <<files, rd>>
            ELSE \E file \in (IF files.download_rules = Unread THEN DownloadFilesMaster
                              ELSE {files.download_rules}) :
                 /\ files' = [files EXCEPT !.download_rules = file]
                 /\ IF file.st = "missing"
                    THEN Exit(1) /\ rd' = rd
                    ELSE /\ rd' = [rd EXCEPT !.calls = DownloadCalls(cc.result), !.idx = 1,
                                             !.overall_success = TRUE]
                         /\ pc' = "rd_next"
                         /\ mn' = mn
    /\ UNCHANGED <<entry, dry_run, hexCount, cc, dl, en, ssm, ddb, out, failures>>

\* run_download_rules_insertion lines 76-91: the next call of insert_download_rules
RD_Call ==
    /\ pc = "rd_next"
    /\ rd.idx <= Len(rd.calls)
    /\ LET call == rd.calls[rd.idx]
       IN  dl' = [dlInit EXCEPT !.env_id = call.env_id, !.client_id = call.client_id,
                                !.pipeline_id = call.pipeline_id,
                                !.pipeline_key = call.pipeline_key]
    /\ pc' = "dl_start"
    /\ UNCHANGED <<entry, dry_run, files, hexCount, cc, rd, en, mn, ssm, ddb, out, failures>>

\* run_download_rules_insertion lines 93-101
RD_AfterInsert ==
    /\ pc = "dl_returned"
    /\ entry = "master"
    /\ rd' = [rd EXCEPT !.idx = @ + 1,
                        !.overall_success = IF dl.result.success THEN @ ELSE FALSE]
    /\ pc' = "rd_next"
    /\ UNCHANGED <<entry, dry_run, files, hexCount, cc, dl, en, mn, ssm, ddb, out, failures>>

\* run_download_rules_insertion line 103 and main lines 225-226
RD_Return ==
    /\ pc = "rd_next"
    /\ rd.idx > Len(rd.calls)
    /\ mn' = [mn EXCEPT !.rules_success = rd.overall_success]
    /\ pc' = "m_enrich"
    /\ UNCHANGED <<entry, dry_run, files, hexCount, cc, rd, dl, en, ssm, ddb, out, failures>>

\* main lines 230-245 and run_enrichment_rules_insertion lines 119-127
M_Enrich ==
    /\ pc = "m_enrich"
    /\ IF mn.skip_enrichment_rules
        THEN /\ mn' = mn
             /\ pc' = "m_summary"
             /\ UNCHANGED <<files, en>>
        ELSE \E file \in (IF files.enrichment_rules = Unread THEN EnrichmentFilesMaster
                          ELSE {files.enrichment_rules}) :
             /\ files' = [files EXCEPT !.enrichment_rules = file]
             /\ IF file.st = "missing"
                THEN Exit(1) /\ en' = en
                ELSE /\ en' = [enInit EXCEPT !.environment_id_map = cc.result.environment_ids,
                                             !.client_id = cc.result.client_id]
                     /\ pc' = "en_start"
                     /\ mn' = mn
    /\ UNCHANGED <<entry, dry_run, hexCount, cc, rd, dl, ssm, ddb, out, failures>>

\* run_enrichment_rules_insertion lines 129-138 and main lines 238-248
M_AfterEnrich ==
    /\ pc = "en_returned"
    /\ entry = "master"
    /\ mn' = [mn EXCEPT !.enrichment_success = en.result.success,
                        !.enrichment_result = en.result]
    /\ pc' = "m_summary"
    /\ UNCHANGED <<entry, dry_run, files, hexCount, cc, rd, dl, en, ssm, ddb, out, failures>>

\* main lines 252-281; line 271 reads enrichment_result['total_rules'], a
\* KeyError on an error result, which ends the process with a traceback
M_Summary ==
    /\ pc = "m_summary"
    /\ IF /\ ~mn.skip_enrichment_rules
          /\ mn.enrichment_result # None
          /\ "total_rules" \notin DOMAIN mn.enrichment_result
       THEN Exit(1)
       ELSE Exit(0)
    /\ UNCHANGED <<entry, dry_run, files, hexCount, cc, rd, dl, en, ssm, ddb, out, failures>>

-----------------------------------------------------------------------------
(* Specifications *)

InitCommon ==
    /\ dry_run \in BOOLEAN
    /\ files = filesInit
    /\ hexCount = 0
    /\ cc = ccInit
    /\ rd = rdInit
    /\ ssm = <<>>
    /\ ddb = <<>>
    /\ out = <<>>
    /\ failures = 0

\* python client_config_maker.py --input-dir ... [--dry-run]
InitConfig ==
    /\ entry = "config" /\ pc = "cc_connect" /\ InitCommon
    /\ dl = dlInit /\ en = enInit /\ mn = mnInit

NextConfig ==
    \/ CC_Connect \/ CC_LoadClient \/ CC_ClientParam \/ CC_Env \/ CC_Secret
    \/ CC_Return \/ CCMain_Exit

SpecConfig == InitConfig /\ [][NextConfig]_vars

\* one call insert_download_rules(env_id, client_id, pipeline_id, ...,
\* pipeline_key), as the stand-alone script (no key) or the orchestrator (a
\* key) makes it
InitDownload ==
    /\ entry = "download"
    /\ pc = "dl_start"
    /\ InitCommon
    /\ en = enInit
    /\ mn = mnInit
    /\ \E key \in {None, <<"p1">>} :
        dl = [dlInit EXCEPT !.env_id = <<"acme", "-", "prd", "-", "hex2">>,
                            !.client_id = <<"acme", "-", "cid", "-", "hex1">>,
                            !.pipeline_id = <<"acme", "-", "pipe", "-", "hex3">>,
                            !.pipeline_key = key]

NextDownload == DL_Start \/ DL_Put \/ DLMain_Exit

SpecDownload == InitDownload /\ [][NextDownload]_vars

\* one call insert_enrichment_rules(..., environment_id_map, client_id)
InitEnrichment ==
    /\ entry = "enrichment"
    /\ pc = "en_start"
    /\ InitCommon
    /\ dl = dlInit
    /\ mn = mnInit
    /\ \E m \in {None, << <<<<"prod">>, <<"acme", "-", "prd", "-", "hex2">>>> >>},
          c \in {None, <<"acme", "-", "cid", "-", "hex1">>} :
        en = [enInit EXCEPT !.environment_id_map = m, !.client_id = c]

NextEnrichment == EN_Start \/ EN_Put \/ ENMain_Exit

SpecEnrichment == InitEnrichment /\ [][NextEnrichment]_vars

\* python deploy_master.py --input-dir ... [--dry-run] [--skip-rules]
\* [--skip-enrichment-rules]
Init ==
    /\ entry = "master" /\ pc = "m_start" /\ InitCommon
    /\ dl = dlInit /\ en = enInit
    /\ \E skip_rules \in BOOLEAN, skip_enrichment_rules \in BOOLEAN :
          mn = [mnInit EXCEPT !.skip_rules = skip_rules,
                              !.skip_enrichment_rules = skip_enrichment_rules]

Next ==
    \/ M_Start \/ CC_Connect \/ CC_LoadClient \/ CC_ClientParam \/ CC_Env \/ CC_Secret
    \/ CC_Return \/ M_AfterConfig \/ RD_Call \/ DL_Start \/ DL_Put \/ RD_AfterInsert
    \/ RD_Return \/ M_Enrich \/ EN_Start \/ EN_Put \/ M_AfterEnrich \/ M_Summary

Spec == Init /\ [][Next]_vars

\* python deploy_master.py --dry-run ..., then the same command line without
\* --dry-run on the same input directory, the identifier generator replaying
\* the same sequence; the dry-run output directory stays on disk
RunAgainLive ==
    /\ pc = "exit"
    /\ entry = "master"
    /\ dry_run
    /\ dry_run' = FALSE
    /\ pc' = "m_start"
    /\ hexCount' = 0
    /\ cc' = ccInit /\ rd' = rdInit /\ dl' = dlInit /\ en' = enInit
    /\ mn' = [mnInit EXCEPT !.skip_rules = mn.skip_rules,
                            !.skip_enrichment_rules = mn.skip_enrichment_rules]
    /\ UNCHANGED <<entry, files, ssm, ddb, out, failures>>

NextDryThenLive == Next \/ RunAgainLive

SpecDryThenLive == Init /\ [][NextDryThenLive]_vars

-----------------------------------------------------------------------------
(* What the stores have seen *)

PutParams == SelectSeq(ssm, LAMBDA call : call.op = "put_parameter")
PutItems == SelectSeq(ddb, LAMBDA call : call.op = "put_item")

IsClientParam(call) ==
    call.op = "put_parameter" /\ call.name = ClientParamName(cc.client_id)

ClientParamWriteFailed == \E i \in 1..Len(ssm) : IsClientParam(ssm[i]) /\ ~ssm[i].ok

ClientHasNoTag == files.client.st = "ok" /\ "tag" \notin DOMAIN files.client.data

-----------------------------------------------------------------------------
(* Claims *)

\* C1: in a live run, once the write of the client configuration parameter
\* has failed, that failed call is the only parameter write of the run, no
\* table row is written, create_client_config has returned a failure and the
\* orchestrator exits with status 1.
C1_ClientParamFailureIsTerminal ==
    (~dry_run /\ ClientParamWriteFailed) =>
        /\ Len(PutParams) = 1
        /\ IsClientParam(ssm[Len(ssm)])
        /\ PutItems = <<>>
        /\ pc \in {"cc_returned", "exit"}
        /\ ~cc.result.success
        /\ cc.result.error = "client_param"
        /\ (pc = "exit" => mn.exit_status = 1)

C1_Witness == pc = "exit" /\ ~dry_run /\ ClientParamWriteFailed

\* C2: when client.json has no tag, create_client_config returns a
\* configuration error, the orchestrator exits with status 1, and neither
\* store is written: no parameter (client, environment, secret) and no row
\* (download rule, enrichment rule).
C2_NoTagNoStoreWrite ==
    ClientHasNoTag =>
        /\ PutParams = <<>>
        /\ PutItems = <<>>
        /\ pc \in {"cc_returned", "exit"}
        /\ ~cc.result.success
        /\ cc.result.error =
              (IF files.environments.st = "badjson" THEN "invalid_json" ELSE "tag_missing")
        /\ (pc = "exit" => mn.exit_status = 1)

C2_Witness ==
    /\ pc = "exit" /\ ~dry_run /\ ClientHasNoTag
    /\ files.environments.st = "ok" /\ Len(files.environments.data) = 2
    /\ cc.result.error = "tag_missing"

\* the environments mapping of the run, once environments.json was parsed
Environments == IF files.environments.st = "ok" THEN files.environments.data ELSE <<>>

PutAt(i) == ssm[i].op = "put_parameter"

\* the write of the configuration of the e-th environment, where attempted
EnvPutIdx(e) ==
    LET env_key == Environments[e][1]
    IN  IF ~Has(cc.environment_ids, env_key) THEN {}
        ELSE {i \in 1..Len(ssm) :
                PutAt(i) /\ ssm[i].name = EnvParamName(cc.client_id, Get(cc.environment_ids, env_key))}

\* the secret mapping of the e-th environment as environments.json gives it
SecretsOf(e) == IF "secret" \in DOMAIN Environments[e][2] THEN Environments[e][2].secret ELSE <<>>

\* the write of the k-th secret of the e-th environment, where attempted
SecretPutIdx(e, k) ==
    LET env_key == Environments[e][1]
    IN  IF ~Has(cc.environment_ids, env_key) THEN {}
        ELSE {i \in 1..Len(ssm) :
                PutAt(i) /\ ssm[i].name = SecretParamName(cc.client_id,
                                Get(cc.environment_ids, env_key), SecretsOf(e)[k][1])}

EnvWriteFailed(e) == \E i \in EnvPutIdx(e) : ~ssm[i].ok
SecretWriteFailed(e, k) == \E i \in SecretPutIdx(e, k) : ~ssm[i].ok

EnvOrSecretWriteFailed ==
    \E i \in 1..Len(ssm) : PutAt(i) /\ ~ssm[i].ok /\ ~IsClientParam(ssm[i])

RowWriteFailed == \E i \in 1..Len(ddb) : ddb[i].op = "put_item" /\ ~ddb[i].ok

\* C3: in a live run, when create_client_config has returned, a failed
\* write of an environment's configuration or of one of its secrets is
\* followed by an attempted configuration write for every later environment of
\* the mapping, and a failed secret write by an attempted write of every later
\* secret of the same environment.
C3_SiblingWritesAttempted ==
    (pc = "cc_returned" /\ ~dry_run) =>
        \A e \in 1..Len(Environments) :
            /\ (EnvWriteFailed(e) \/ \E k \in 1..Len(SecretsOf(e)) : SecretWriteFailed(e, k))
                  => \A later \in (e + 1)..Len(Environments) : EnvPutIdx(later) # {}
            /\ \A k \in 1..Len(SecretsOf(e)) :
                  SecretWriteFailed(e, k)
                      => \A later \in (k + 1)..Len(SecretsOf(e)) : SecretPutIdx(e, later) # {}

\* the flags the orchestrator holds when it ends: the result of
\* create_client_config and the outcomes of the two rule steps
DeploymentSuccess == cc.result.success /\ mn.rules_success /\ mn.enrichment_success

\* C4: when the orchestrator reaches its final summary, if an environment
\* configuration write, a secret write, a download-rule row write or an
\* enrichment-rule row write failed during the run, the aggregated success
\* flag is false.
C4_SuccessOnlyIfEveryUnitSucceeded ==
    (pc = "m_summary" /\ (EnvOrSecretWriteFailed \/ RowWriteFailed)) => ~DeploymentSuccess

\* C5: a run that is not a dry run and in which an environment configuration,
\* a secret, a download-rule row or an enrichment-rule row failed to write
\* ends with a non-zero exit status.
C5_FailedUnitExitsNonZero ==
    (pc = "exit" /\ ~dry_run /\ (EnvOrSecretWriteFailed \/ RowWriteFailed))
        => mn.exit_status # 0

\* the list download_rules.json holds, once read
DownloadRecords ==
    IF files.download_rules.st = "ok" /\ files.download_rules.data.t = "list"
    THEN files.download_rules.data.v
    ELSE <<>>

\* the records whose pipeline field equals the filter of the invocation, all
\* records when there is no filter, in input order
FilteredRecords ==
    IF dl.pipeline_key = None THEN DownloadRecords
    ELSE SelectSeq(DownloadRecords,
                   LAMBDA r : /\ r.t = "obj"
                              /\ "pipeline" \in DOMAIN r.v
                              /\ r.v["pipeline"] = Str(dl.pipeline_key))

\* an object with string fields description, type, values
WellFormedRule(r) ==
    /\ r.t = "obj"
    /\ \A field \in {"description", "type", "values"} :
          field \in DOMAIN r.v /\ r.v[field].t = "str"

\* C6: in one invocation of insert_download_rules, when a record of the
\* filtered list is not an object with string fields description, type and
\* values, no row is ever written (nor collected for the dry-run file), the
\* write loop is never entered, and the invocation returns failure; this
\* includes the rows for the records that precede the invalid one.
C6_ValidatedBeforeAnyWrite ==
    (\E i \in 1..Len(FilteredRecords) : ~WellFormedRule(FilteredRecords[i])) =>
        /\ PutItems = <<>>
        /\ dl.dry_run_items = <<>>
        /\ out = <<>>
        /\ pc \in {"dl_returned", "exit"}
        /\ ~dl.result.success

C6_Witness ==
    /\ pc = "exit" /\ ~dry_run
    /\ dl.pipeline_key = <<"p1">>
    /\ DownloadRecords = <<RuleP2, RuleP1, RuleMissingValues>>
    /\ ddb = <<DescribeTable(DOWNLOAD_TABLE, TRUE)>>
    /\ dl.result = Fail("validation")

\* C7: in one invocation of insert_download_rules, the rows sent to the table
\* are, in order, the records whose pipeline field equals the filter (all
\* records without a filter): the k-th row carries the fields of the k-th
\* such record and the rule id {guid}#rule_k, k from 1, with the one guid of
\* the invocation; an invocation that returns success has sent a row for every
\* such record, one that returns failure has sent none.
C7_RowsAreFilteredRecordsInOrder ==
    /\ Len(PutItems) <= Len(FilteredRecords)
    /\ \A k \in 1..Len(PutItems) :
          /\ PutItems[k].item.rule_id.S = dl.rule_guid \o <<"#rule_">> \o IntToStr(k)
          /\ \A field \in {"description", "type", "values"} :
                PutItems[k].item[field].S = FilteredRecords[k].v[field].v
          /\ PutItems[k].item.pipeline_id.S = dl.pipeline_id
    /\ (PutItems # <<>> => dl.rule_guid = Uuid4(1) /\ hexCount = 1)
    /\ (pc \in {"dl_returned", "exit"} /\ ~dry_run)
          => Len(PutItems) = (IF dl.result.success THEN Len(FilteredRecords) ELSE 0)

C7_Witness ==
    /\ pc = "exit" /\ ~dry_run
    /\ dl.pipeline_key = <<"p1">>
    /\ DownloadRecords = <<RuleP1, RuleP2, RuleP1>>
    /\ Len(PutItems) = 2
    /\ PutItems[1].item.rule_id.S = <<"uuid1", "#rule_", "1">>
    /\ PutItems[2].item.rule_id.S = <<"uuid1", "#rule_", "2">>

\* the list enrichment_rules.json holds, once read
EnrichmentRecords ==
    IF files.enrichment_rules.st = "ok" /\ files.enrichment_rules.data.t = "list"
    THEN files.enrichment_rules.data.v
    ELSE <<>>

\* a version that is a string with a character that is not a digit
NonNumericVersion(version) ==
    version.t = "str" /\ \E i \in 1..Len(version.v) : version.v[i] \notin Range(Digits)

\* a record without environment_id, without version, with a non-numeric
\* version or without rules_json
Malformed(r) ==
    \/ "environment_id" \notin DOMAIN r.v
    \/ "version" \notin DOMAIN r.v
    \/ "rules_json" \notin DOMAIN r.v
    \/ NonNumericVersion(r.v["version"])

\* a version that spells three: "3", "03" or the number 3
VersionThree(version) ==
    \/ version.t = "str" /\ version.v \in {<<"3">>, <<"0", "3">>}
    \/ version.t = "num" /\ version.v = 3

\* C8: in one invocation of insert_enrichment_rules, when a record of the
\* input list has no environment_id, no version, a non-numeric version such
\* as "abc" or no rules_json, no row is ever written, whatever valid records
\* precede it, and the invocation returns failure; and every row that is
\* written for a record of version "3" carries the number attribute N = "3"
\* (readable version 3).
C8_MalformedRecordAbortsBatch ==
    /\ (\E i \in 1..Len(EnrichmentRecords) : Malformed(EnrichmentRecords[i])) =>
          /\ PutItems = <<>>
          /\ out = <<>>
          /\ pc \in {"en_returned", "exit"}
          /\ ~en.result.success
    /\ \A k \in 1..Len(PutItems) :
          VersionThree(EnrichmentRecords[k].v["version"]) =>
              /\ PutItems[k].item.version = [N |-> <<"3">>]
              /\ en.readable_items[k].version = 3

C8_Witness ==
    /\ pc = "exit" /\ ~dry_run
    /\ EnrichmentRecords = <<EnrichProd3, EnrichAbc>>
    /\ ddb = <<DescribeTable(ENRICHMENT_TABLE, TRUE)>>
    /\ en.result = Fail("version is not a number")

\* the environment last rewritten, as environments.json gives it, and its
\* connections and pipelines
RewrittenFrom == Get(Environments, cc.env_key)
SourceConnections ==
    IF "connections" \in DOMAIN RewrittenFrom THEN RewrittenFrom.connections ELSE <<>>
SourcePipelines ==
    IF "pipelines" \in DOMAIN RewrittenFrom THEN RewrittenFrom.pipelines ELSE <<>>
SourceSecrets ==
    IF "secret" \in DOMAIN RewrittenFrom THEN RewrittenFrom.secret ELSE <<>>

\* the value has the form secret.<name> with <name> a key of the secret mapping
NamesSecret(val) ==
    /\ val.t = "str"
    /\ StartsWithSecret(val.v)
    /\ Has(SourceSecrets, Tail(val.v))

\* C9: once an environment has been rewritten, every connection field
\* password or client_secret whose source value is secret.<name>, <name> a
\* key of the environment's secret mapping, holds exactly
\* /spec/enrichment/clients/{client_id}/envs/{env_id}/secrets/<name>, the
\* name under which that secret is written; this for every such <name>,
\* those containing "secret." included.
C9_SecretReferenceBecomesSecretPath ==
    cc.env_key # None =>
        \A i \in 1..Len(SourceConnections) :
            \A field \in {"password", "client_secret"} :
                (field \in DOMAIN SourceConnections[i][2]
                    /\ NamesSecret(SourceConnections[i][2][field]))
                => cc.env_config.connections[i][2][field] =
                      Str(<<"/spec/enrichment/clients/">> \o cc.client_id \o <<"/envs/">>
                            \o cc.env_id \o <<"/secrets/">>
                            \o Tail(SourceConnections[i][2][field].v))

\* the identifiers drawn so far for connections
ConnectionIdForms ==
    { cc.client_tag \o <<"-", "con", "-">> \o <<Hex16(n)>> : n \in 1..hexCount }

\* C10: once an environment has been rewritten, every pipeline connection
\* reference that is the symbolic key of a connection of the same environment
\* holds the identifier generated for that connection in this rewrite: the key
\* under which the connection appears in the rewritten tree and its id field,
\* of the form {client tag}-con-{16 hex chars}.
C10_ConnectionReferenceResolved ==
    cc.env_key # None =>
        \A j \in 1..Len(SourcePipelines) :
            LET pipeline == SourcePipelines[j][2]
                refs == IF "connections" \in DOMAIN pipeline THEN pipeline.connections ELSE <<>>
            IN  \A k \in 1..Len(refs) :
                  \A i \in 1..Len(SourceConnections) :
                    refs[k][2] = SourceConnections[i][1] =>
                        LET rewritten == cc.env_config.pipelines[j][2].connections[k]
                        IN  /\ rewritten[1] = refs[k][1]
                            /\ rewritten[2] = cc.env_config.connections[i][1]
                            /\ cc.env_config.connections[i][2].id = Str(rewritten[2])
                            /\ rewritten[2] \in ConnectionIdForms

C10_Witness ==
    /\ pc = "exit" /\ ~dry_run
    /\ cc.env_key = <<"prod">>
    /\ Len(SourceConnections) = 2
    /\ SourcePipelines[1][2].connections = << <<<<"source">>, <<"api">>>>, <<<<"sink">>, <<"db">>>> >>
    /\ cc.env_config.pipelines[1][2].connections =
          << <<<<"source">>, <<"acme", "-", "con", "-", "hex4">>>>,
             <<<<"sink">>, <<"acme", "-", "con", "-", "hex3">>>> >>

\* the invocations of a rule deployer in a live run: each begins with the
\* describe_table of its table
Invocations(table) ==
    {i \in 1..Len(ddb) : ddb[i].op = "describe_table" /\ ddb[i].table = table}

\* the pipelines of the e-th environment as environments.json gives them
PipelinesOf(e) ==
    IF "pipelines" \in DOMAIN Environments[e][2] THEN Environments[e][2].pipelines ELSE <<>>

\* the download invocations made for the j-th pipeline of the e-th
\* environment, with the identifiers the rewrite produced for them
DownloadCallsFor(e, j) ==
    LET env_key == Environments[e][1]
    IN  {c \in 1..Len(rd.calls) :
            /\ rd.calls[c].env_key = env_key
            /\ rd.calls[c].env_id = Get(cc.result.environment_ids, env_key)
            /\ rd.calls[c].client_id = cc.result.client_id
            /\ rd.calls[c].pipeline_key = PipelinesOf(e)[j][1]
            /\ rd.calls[c].pipeline_id =
                  Get(Get(cc.result.pipeline_key_maps, env_key), PipelinesOf(e)[j][1])}

DownloadOncePerPipeline ==
    /\ \A e \in 1..Len(Environments) :
          \A j \in 1..Len(PipelinesOf(e)) : Cardinality(DownloadCallsFor(e, j)) = 1
    /\ \A c \in 1..Len(rd.calls) :
          \E e \in 1..Len(Environments) :
              \E j \in 1..Len(PipelinesOf(e)) : c \in DownloadCallsFor(e, j)
    /\ Cardinality(Invocations(DOWNLOAD_TABLE)) = Len(rd.calls)

EnrichmentOncePerEnvironment ==
    Cardinality(Invocations(ENRICHMENT_TABLE)) = Len(Environments)

\* C11: when a live run with no step skipped reaches its summary, the
\* download deployer has been invoked exactly once for each pipeline of each
\* environment, with the identifiers the rewrite produced for that
\* environment and pipeline, and the enrichment deployer exactly once for
\* each environment.
C11_DeployersOncePerUnit ==
    (pc = "m_summary" /\ ~dry_run /\ ~mn.skip_rules /\ ~mn.skip_enrichment_rules) =>
        DownloadOncePerPipeline /\ EnrichmentOncePerEnvironment

\* the environment identifier a rule row carries
RowEnvId(row) ==
    IF row.table = DOWNLOAD_TABLE THEN row.item.env_id.S ELSE row.item.environment_id.S

\* the e-th environment has the identifier, as generated in this run
IsEnvId(e, id) ==
    /\ Has(cc.environment_ids, Environments[e][1])
    /\ Get(cc.environment_ids, Environments[e][1]) = id

\* a parameter of the e-th environment (its configuration or a secret) has
\* been sent to the parameter store
ParamWrittenFor(e) ==
    EnvPutIdx(e) # {} \/ \E k \in 1..Len(SecretsOf(e)) : SecretPutIdx(e, k) # {}

\* the step sends a rule row to a table
RowWritten == Len(ddb') = Len(ddb) + 1 /\ ddb'[Len(ddb')].op = "put_item"

\* C12: the run handles one environment at a time, its parameters, then its
\* download rules, then its enrichment rules, before the next environment:
\* whenever a download-rule or enrichment-rule row of an environment is
\* written, no parameter of a later environment has been written yet.
C12_RulesBeforeNextEnvironment ==
    [][RowWritten =>
          \A e \in 1..Len(Environments) :
              IsEnvId(e, RowEnvId(ddb'[Len(ddb')])) =>
                  \A later \in (e + 1)..Len(Environments) : ~ParamWrittenFor(later)]_vars

\* a connectivity test of the run has failed: describe_parameters on the
\* parameter store or describe_table on a target table
ConnectivityFailed ==
    \/ \E i \in 1..Len(ssm) : ssm[i].op = "describe_parameters" /\ ~ssm[i].ok
    \/ \E i \in 1..Len(ddb) : ddb[i].op = "describe_table" /\ ~ddb[i].ok

\* C13: a run in which a connectivity test failed (parameter store
\* unreachable, table store unreachable or target table absent) ends without
\* any parameter having been written to the parameter store and without any
\* row having been written to a table.
C13_ConnectivityErrorBeforeAnyWrite ==
    (pc = "exit" /\ ConnectivityFailed) => PutParams = <<>> /\ PutItems = <<>>

\* the files of the dry-run output directory
HasFile(name) == \E i \in 1..Len(out) : out[i].file = name
FileJson(name) == out[CHOOSE i \in 1..Len(out) : out[i].file = name].content.json

EnvProcessed(e) == Has(cc.environment_ids, Environments[e][1])
EnvIdOf(e) == Get(cc.environment_ids, Environments[e][1])

\* what the live run sent to the stores, entity by entity
LiveClientPuts == SelectSeq(ssm, LAMBDA call : IsClientParam(call))

SecretsPath(e) == SecretParamName(cc.client_id, EnvIdOf(e), <<>>)

IsSecretOf(call, e) ==
    /\ call.op = "put_parameter"
    /\ call.type = "SecureString"
    /\ Len(call.name) > Len(SecretsPath(e))
    /\ SubSeq(call.name, 1, Len(SecretsPath(e))) = SecretsPath(e)

\* the secret set sent for the e-th environment: <<name, value>> in order
LiveSecrets(e) ==
    IF ~EnvProcessed(e) THEN <<>>
    ELSE LET puts == SelectSeq(ssm, LAMBDA call : IsSecretOf(call, e))
         IN  [k \in 1..Len(puts) |->
                <<SubSeq(puts[k].name, Len(SecretsPath(e)) + 1, Len(puts[k].name)),
                  puts[k].value>>]

IsRowOf(call, table) == call.op = "put_item" /\ call.table = table

\* the download batch sent for a pipeline, each row without its type tags
LiveDownloadBatch(pipeline_id) ==
    LET rows == SelectSeq(ddb, LAMBDA call : /\ IsRowOf(call, DOWNLOAD_TABLE)
                                             /\ call.item.pipeline_id.S = pipeline_id)
    IN  [k \in 1..Len(rows) |-> [f \in DOMAIN rows[k].item |-> rows[k].item[f].S]]

UntypedEnrichment(item) ==
    LET base == [environment_id |-> item.environment_id.S,
                 version |-> DecimalValue(item.version.N),
                 rules_json |-> Str(item.rules_json.S)]
    IN  IF "client_id" \in DOMAIN item THEN Ext(base, "client_id", item.client_id.S) ELSE base

LiveEnrichmentBatch ==
    LET rows == SelectSeq(ddb, LAMBDA call : IsRowOf(call, ENRICHMENT_TABLE))
    IN  [k \in 1..Len(rows) |-> UntypedEnrichment(rows[k].item)]

\* the pipeline identifiers the run generated
PipelineIds ==
    UNION { Range(Get(cc.pipeline_ids, Environments[e][1])) :
                e \in {x \in 1..Len(Environments) : EnvProcessed(x)} }

\* the file that stands for each entity
ClientFile == <<"client_config.json">>
EnvConfigFile(e) == <<"environment_">> \o Environments[e][1] \o <<"_config.json">>
EnvSecretsFile(e) == <<"environment_">> \o Environments[e][1] \o <<"_secrets.json">>
RulesFile(pipeline_id) == <<"rules_">> \o SafePipelineId(pipeline_id) \o <<".json">>
EnrichmentFile == <<"enrichment_rules.json">>

EntityFiles ==
    {ClientFile, EnrichmentFile}
        \cup {EnvConfigFile(e) : e \in 1..Len(Environments)}
        \cup {EnvSecretsFile(e) : e \in 1..Len(Environments)}
        \cup {RulesFile(id) : id \in PipelineIds}

\* the live run that follows a dry run on the same input has ended, no remote
\* call having failed and the input directory being as the dry run found it
LiveAfterDryEnded ==
    /\ pc = "exit" /\ ~dry_run /\ out # <<>> /\ failures = 0
    /\ cc.result # None
    /\ (cc.result.success \/ cc.result.error # "missing_input")

\* C14: a dry run and a live run on identical input, with the same sequence
\* of generated identifiers and no remote call failing, produce the same
\* entities with the same payloads: the client configuration, each environment
\* configuration, each environment's secret set, each download-rule batch and
\* the enrichment-rule batch are sent to the stores exactly when the dry run
\* wrote their file, with the content of that file, and the dry run wrote no
\* other file and no file twice.
C14_DryRunMatchesLiveRun ==
    LiveAfterDryEnded =>
        /\ (LiveClientPuts # <<>>) = HasFile(ClientFile)
        /\ LiveClientPuts # <<>> =>
              Len(LiveClientPuts) = 1 /\ LiveClientPuts[1].value.json = FileJson(ClientFile)
        /\ \A e \in 1..Len(Environments) :
              /\ (EnvPutIdx(e) # {}) = HasFile(EnvConfigFile(e))
              /\ \A i \in EnvPutIdx(e) : ssm[i].value.json = FileJson(EnvConfigFile(e))
              /\ Cardinality(EnvPutIdx(e)) <= 1
              /\ (LiveSecrets(e) # <<>>) = HasFile(EnvSecretsFile(e))
              /\ LiveSecrets(e) # <<>> => LiveSecrets(e) = FileJson(EnvSecretsFile(e))
        /\ \A id \in PipelineIds :
              /\ (LiveDownloadBatch(id) # <<>>) = HasFile(RulesFile(id))
              /\ LiveDownloadBatch(id) # <<>> => LiveDownloadBatch(id) = FileJson(RulesFile(id))
        /\ (LiveEnrichmentBatch # <<>>) = HasFile(EnrichmentFile)
        /\ LiveEnrichmentBatch # <<>> => LiveEnrichmentBatch = FileJson(EnrichmentFile)
        /\ \A i \in 1..Len(out) :
              out[i].file \in EntityFiles /\ \A j \in 1..Len(out) : out[j].file = out[i].file => j = i
        /\ \A i \in 1..Len(ssm) :
              PutAt(i) =>
                  \/ IsClientParam(ssm[i])
                  \/ \E e \in 1..Len(Environments) :
                        i \in EnvPutIdx(e) \/ (EnvProcessed(e) /\ IsSecretOf(ssm[i], e))
        /\ \A i \in 1..Len(ddb) :
              IsRowOf(ddb[i], DOWNLOAD_TABLE) => ddb[i].item.pipeline_id.S \in PipelineIds

C14_Witness ==
    /\ LiveAfterDryEnded
    /\ Len(Environments) = 2
    /\ Len(out) >= 6
    /\ HasFile(EnrichmentFile)
    /\ HasFile(EnvSecretsFile(2))
    /\ \E id \in PipelineIds : Len(LiveDownloadBatch(id)) = 2
    /\ Len(LiveEnrichmentBatch) = 2

\* the records of download_rules.json that name the pipeline key
MatchingRecords(pipeline_key) ==
    SelectSeq(DownloadRecords,
              LAMBDA r : "pipeline" \in DOMAIN r.v /\ r.v["pipeline"] = Str(pipeline_key))

\* download_rules.json is a list of objects and the records that name the
\* pipeline key are well formed, at least one of them
Deployable(pipeline_key) ==
    /\ \A i \in 1..Len(DownloadRecords) : DownloadRecords[i].t = "obj"
    /\ MatchingRecords(pipeline_key) # <<>>
    /\ \A i \in 1..Len(MatchingRecords(pipeline_key)) :
          WellFormedRule(MatchingRecords(pipeline_key)[i])

\* a dry run of the orchestrator has reached its summary
DryRunEnded == pc = "m_summary" /\ dry_run

\* C15: a dry run performs no operation on a remote store, neither a write nor
\* a describe call, at any point; and when it reaches its summary every
\* transformation was performed: each environment and each pipeline has its
\* generated identifier, the configuration of each environment is rewritten
\* under these identifiers without its secret mapping, the secret mapping is
\* extracted entry by entry, and every deployable batch of download rules and
\* every accepted batch of enrichment rules is converted, one item per record.
C15_DryRunTouchesNoStore ==
    /\ dry_run => ssm = <<>> /\ ddb = <<>>
    /\ DryRunEnded =>
          /\ \A e \in 1..Len(Environments) :
                /\ EnvProcessed(e)
                /\ IsEnvId(e, EnvIdOf(e))
                /\ HasFile(EnvConfigFile(e))
                /\ "secret" \notin DOMAIN FileJson(EnvConfigFile(e))
                /\ SecretsOf(e) # <<>> =>
                      HasFile(EnvSecretsFile(e)) /\ FileJson(EnvSecretsFile(e)) = SecretsOf(e)
                /\ \A j \in 1..Len(PipelinesOf(e)) :
                      LET pipeline_key == PipelinesOf(e)[j][1]
                          pipeline_id == Get(cc.pipeline_ids, Environments[e][1])[j]
                      IN  /\ FileJson(EnvConfigFile(e)).pipelines[j][1] = pipeline_id
                          /\ (~mn.skip_rules /\ Deployable(pipeline_key)) =>
                                /\ HasFile(RulesFile(pipeline_id))
                                /\ Len(FileJson(RulesFile(pipeline_id)))
                                      = Len(MatchingRecords(pipeline_key))
                                /\ \A k \in 1..Len(FileJson(RulesFile(pipeline_id))) :
                                      FileJson(RulesFile(pipeline_id))[k].pipeline_id = pipeline_id
          /\ (~mn.skip_enrichment_rules /\ en.result.success /\ EnrichmentRecords # <<>>) =>
                /\ HasFile(EnrichmentFile)
                /\ Len(FileJson(EnrichmentFile)) = Len(EnrichmentRecords)

C15_Witness ==
    /\ DryRunEnded
    /\ Len(Environments) = 2
    /\ \E e \in 1..2 : SecretsOf(e) # <<>>
    /\ \E e \in 1..2 : \E j \in 1..Len(PipelinesOf(e)) : Deployable(PipelinesOf(e)[j][1])
    /\ HasFile(EnrichmentFile)
    /\ ~mn.skip_rules

\* the e-th environment is behind the run: its configuration and its secrets
\* were dealt with, or create_client_config has returned
EnvDone(e) == cc.envIdx > e \/ pc \notin {"cc_connect", "cc_load", "cc_client_param", "cc_env", "cc_secret"}

EnvWritten(e) == \E i \in EnvPutIdx(e) : ssm[i].ok

IsSecretPath(name) ==
    \E i \in 1..Len(name) : name[i] = "/secrets/"

\* C16: the configuration of every environment is sent as a String parameter
\* at /spec/enrichment/clients/{client_id}/envs/{env_id}/config and does not
\* hold the secret mapping; once the configuration of an environment is
\* stored, each entry of its secret mapping is sent, with its value, as a
\* SecureString parameter at .../envs/{env_id}/secrets/{secret_name}; and no
\* String parameter is ever sent under a secrets path: the String parameters
\* are the client configuration and the environment configurations.
C16_SecretsOnlyAsSecureString ==
    /\ \A e \in 1..Len(Environments) :
          /\ \A i \in EnvPutIdx(e) :
                /\ ssm[i].type = "String"
                /\ "secret" \notin DOMAIN ssm[i].value.json
          /\ (EnvDone(e) /\ EnvWritten(e)) =>
                \A k \in 1..Len(SecretsOf(e)) :
                    /\ Cardinality(SecretPutIdx(e, k)) = 1
                    /\ \A i \in SecretPutIdx(e, k) :
                          ssm[i].type = "SecureString" /\ ssm[i].value = SecretsOf(e)[k][2]
    /\ \A i \in 1..Len(ssm) :
          PutAt(i) =>
              IF ssm[i].type = "String"
              THEN /\ ~IsSecretPath(ssm[i].name)
                   /\ \/ IsClientParam(ssm[i])
                      \/ \E e \in 1..Len(Environments) : i \in EnvPutIdx(e)
              ELSE \E e \in 1..Len(Environments) :
                       \E k \in 1..Len(SecretsOf(e)) : i \in SecretPutIdx(e, k)

C16_Witness ==
    /\ pc = "exit" /\ ~dry_run
    /\ \E e \in 1..Len(Environments) :
          /\ Len(SecretsOf(e)) = 2
          /\ EnvWritten(e)
          /\ \A k \in 1..2 : SecretPutIdx(e, k) # {}

\* the step of the e-th environment raised: create_client_config stopped at
\* it with the failure of its blanket handler
EnvStepFailed(e) ==
    /\ cc.result = Fail("exception")
    /\ cc.envIdx = e
    /\ ~EnvProcessed(e)

\* the download deployer was called for the j-th pipeline of the e-th environment
DownloadRanFor(e, j) ==
    \E c \in 1..Len(rd.calls) :
        /\ rd.calls[c].env_key = Environments[e][1]
        /\ rd.calls[c].pipeline_key = PipelinesOf(e)[j][1]

\* C17: when a live run of the orchestrator has ended and the step of an
\* environment had raised (no tag, or a connection secret field that is not a
\* string), every later environment was still rewritten and its configuration
\* write attempted, and, unless the rules step was skipped, the download
\* deployer was called for every pipeline of the environments that succeeded.
C17_FailureStaysInItsUnit ==
    (pc = "exit" /\ ~dry_run) =>
        \A e \in 1..Len(Environments) :
            EnvStepFailed(e) =>
                /\ \A later \in (e + 1)..Len(Environments) :
                      EnvProcessed(later) /\ EnvPutIdx(later) # {}
                /\ ~mn.skip_rules =>
                      \A other \in 1..Len(Environments) :
                          EnvProcessed(other) =>
                              \A j \in 1..Len(PipelinesOf(other)) : DownloadRanFor(other, j)

\* the rows sent to the enrichment table, in order
EnrichmentPuts == SelectSeq(ddb, LAMBDA call : IsRowOf(call, ENRICHMENT_TABLE))

\* the key of a row of the enrichment table
KeyOf(item) == <<item.environment_id.S, item.version.N>>

\* the table after the run: under each key the last row the store accepted
StoredKeys == {KeyOf(EnrichmentPuts[i].item) : i \in {k \in 1..Len(EnrichmentPuts) : EnrichmentPuts[k].ok}}
StoredRow(key) ==
    LET hits == {i \in 1..Len(EnrichmentPuts) :
                    EnrichmentPuts[i].ok /\ KeyOf(EnrichmentPuts[i].item) = key}
    IN  EnrichmentPuts[CHOOSE i \in hits : \A j \in hits : j <= i].item
TableRows == {StoredRow(key) : key \in StoredKeys}

\* the environment a record names, as a string, and the number its version spells
NamedEnv(r) == StrOf(GetUnwrapped(r, "environment_id", "S"))
VersionNumber(r) ==
    LET version == GetUnwrapped(r, "version", "N")
    IN  IF version.t = "num" THEN version.v ELSE DecimalValue(version.v)

\* one record names the environment the other names: the same string, or a
\* key of environments.json and the identifier generated for that key
SameEnvironment(r1, r2) ==
    \/ NamedEnv(r1) = NamedEnv(r2)
    \/ \E e \in 1..Len(Environments) :
          /\ EnvProcessed(e)
          /\ {NamedEnv(r1), NamedEnv(r2)} = {Environments[e][1], EnvIdOf(e)}

SamePair(r1, r2) == SameEnvironment(r1, r2) /\ VersionNumber(r1) = VersionNumber(r2)

\* the enrichment deployer of a live orchestrated run has returned counters
EnrichmentInserted ==
    /\ pc \in {"en_returned", "m_summary", "exit"} /\ ~dry_run
    /\ en.result # None
    /\ "total_rules" \in DOMAIN en.result

\* C18: when the enrichment deployer of a live run has returned its counters,
\* one row was sent for each record of the file, in input order, carrying the
\* payload of that record, duplicates included; records that name the same
\* environment (the same string, or a key of environments.json and the
\* identifier generated for it) with versions that spell the same number were
\* sent under the same (environment_id, version) key; the table holds exactly
\* one row for each key, the last one the store accepted; and the result
\* counts every accepted row, duplicates included, as a successful insert.
C18_DuplicatePairsOverwrite ==
    EnrichmentInserted =>
        /\ Len(EnrichmentPuts) = Len(EnrichmentRecords)
        /\ \A k \in 1..Len(EnrichmentPuts) :
              EnrichmentPuts[k].item.rules_json.S
                  = StrOf(GetUnwrapped(EnrichmentRecords[k], "rules_json", "S"))
        /\ \A i, j \in 1..Len(EnrichmentPuts) :
              SamePair(EnrichmentRecords[i], EnrichmentRecords[j])
                  <=> KeyOf(EnrichmentPuts[i].item) = KeyOf(EnrichmentPuts[j].item)
        /\ \A i \in 1..Len(EnrichmentPuts) :
              \A j \in (i + 1)..Len(EnrichmentPuts) :
                  (/\ EnrichmentPuts[j].ok
                   /\ KeyOf(EnrichmentPuts[i].item) = KeyOf(EnrichmentPuts[j].item)
                   /\ \A later \in (j + 1)..Len(EnrichmentPuts) :
                         EnrichmentPuts[later].ok =>
                             KeyOf(EnrichmentPuts[later].item) # KeyOf(EnrichmentPuts[j].item))
                  => /\ StoredRow(KeyOf(EnrichmentPuts[i].item)) = EnrichmentPuts[j].item
                     /\ Cardinality({row \in TableRows :
                            KeyOf(row) = KeyOf(EnrichmentPuts[i].item)}) = 1
        /\ en.result.total_rules = Len(EnrichmentRecords)
        /\ en.result.successful_inserts
              = Cardinality({k \in 1..Len(EnrichmentPuts) : EnrichmentPuts[k].ok})
        /\ en.result.failed_inserts
              = Cardinality({k \in 1..Len(EnrichmentPuts) : ~EnrichmentPuts[k].ok})

C18_Witness ==
    /\ pc = "exit" /\ ~dry_run
    /\ EnrichmentInserted
    /\ EnrichmentRecords = <<EnrichProd3, EnrichTyped, EnrichRawLater>>
    /\ en.result.successful_inserts = 3
    /\ KeyOf(EnrichmentPuts[1].item) = KeyOf(EnrichmentPuts[3].item)
    /\ Cardinality(TableRows) = 2
    /\ StoredRow(KeyOf(EnrichmentPuts[1].item)).rules_json.S = <<"{\"v\":2}">>

\* the string holds the literal secret.
HoldsSecretLiteral(val) == val.t = "str" /\ SECRET_PREFIX \in Range(val.v)

\* the connections of the environment last rewritten, after the rewrite
RewrittenConnections ==
    IF "connections" \in DOMAIN cc.env_config THEN cc.env_config.connections ELSE <<>>

\* C19: once an environment has been rewritten, no field of any connection
\* of the rewritten tree is a string that contains the literal secret.
C19_NoSecretLiteralLeft ==
    cc.env_key # None =>
        \A i \in 1..Len(RewrittenConnections) :
            \A field \in DOMAIN RewrittenConnections[i][2] :
                ~HoldsSecretLiteral(RewrittenConnections[i][2][field])

\* the references of the j-th pipeline of the environment last rewritten
SourceRefs(j) ==
    IF "connections" \in DOMAIN SourcePipelines[j][2]
    THEN SourcePipelines[j][2].connections ELSE <<>>

\* the value names no connection of the environment
Unresolvable(val) == \A i \in 1..Len(SourceConnections) : SourceConnections[i][1] # val

\* the e-th environment has a secret-bearing connection field that is neither
\* empty nor a string
HasBadSecretField(e) ==
    /\ "connections" \in DOMAIN Environments[e][2]
    /\ \E i \in 1..Len(Environments[e][2].connections) :
          \E field \in {"password", "client_secret"} :
              LET connection == Environments[e][2].connections[i][2]
              IN  /\ field \in DOMAIN connection
                  /\ connection[field].t = "num"
                  /\ connection[field].v # 0

PipelineIdForms ==
    { cc.client_tag \o <<"-", "pipe", "-">> \o <<Hex16(n)>> : n \in 1..hexCount }

\* C20: a pipeline reference whose value is not the key of any connection of
\* the same environment never makes the rewrite fail (the step of an
\* environment raises only for a missing tag or a secret-bearing field that is
\* not a string); once the environment has been rewritten, the reference holds
\* the same value under the same role, the other references of the pipeline
\* hold the identifiers of their connections, and the pipeline stands under
\* its generated identifier {client tag}-pipe-{16 hex chars}, which is also
\* its id field and its entry in the remapping table.
C20_UnknownReferencePassesThrough ==
    /\ \A e \in 1..Len(Environments) :
          EnvStepFailed(e) => "tag" \notin DOMAIN Environments[e][2] \/ HasBadSecretField(e)
    /\ cc.env_key # None =>
          \A j \in 1..Len(SourcePipelines) :
              \A k \in 1..Len(SourceRefs(j)) :
                  Unresolvable(SourceRefs(j)[k][2]) =>
                      LET rewritten == cc.env_config.pipelines[j]
                      IN  /\ rewritten[2].connections[k] = SourceRefs(j)[k]
                          /\ \A other \in 1..Len(SourceRefs(j)) :
                                \A i \in 1..Len(SourceConnections) :
                                    SourceRefs(j)[other][2] = SourceConnections[i][1] =>
                                        rewritten[2].connections[other] =
                                            <<SourceRefs(j)[other][1],
                                              cc.env_config.connections[i][1]>>
                          /\ rewritten[1] \in PipelineIdForms
                          /\ rewritten[2].id = rewritten[1]
                          /\ Get(Get(cc.pipeline_key_maps, cc.env_key), SourcePipelines[j][1])
                                = rewritten[1]

C20_Witness ==
    /\ pc = "exit" /\ ~dry_run
    /\ cc.env_key = <<"prod">>
    /\ Len(SourceConnections) = 2
    /\ SourceRefs(1) = << <<<<"source">>, <<"nosuch">>>>, <<<<"sink">>, <<"api">>>> >>
    /\ cc.env_config.pipelines[1][2].connections =
          << <<<<"source">>, <<"nosuch">>>>,
             <<<<"sink">>, <<"acme", "-", "con", "-", "hex4">>>> >>

\* the secret writes attempted for the e-th environment
SecretPutsOf(e) ==
    IF ~EnvProcessed(e) THEN {}
    ELSE {i \in 1..Len(ssm) : IsSecretOf(ssm[i], e)}

\* C21: in a live run, every secret write of an environment comes after a
\* configuration write of that environment that succeeded: an environment
\* whose configuration write failed has no secret written, and the
\* configuration write of an environment precedes each of its secret writes.
C21_SecretsAfterStoredConfiguration ==
    ~dry_run =>
        \A e \in 1..Len(Environments) :
            /\ EnvWriteFailed(e) => SecretPutsOf(e) = {}
            /\ \A i \in SecretPutsOf(e) :
                  /\ \E j \in EnvPutIdx(e) : j < i /\ ssm[j].ok
                  /\ \A j \in EnvPutIdx(e) : j < i

C21_Witness ==
    /\ pc = "exit" /\ ~dry_run
    /\ Len(Environments) = 2
    /\ \E e \in 1..2 : EnvWriteFailed(e) /\ SecretsOf(e) # <<>>
    /\ \E e \in 1..2 : Cardinality(SecretPutsOf(e)) = 2

\* the download rows sent for the j-th pipeline of the e-th environment
DownloadRowsOf(e, j) ==
    SelectSeq(ddb, LAMBDA call :
        /\ IsRowOf(call, DOWNLOAD_TABLE)
        /\ call.item.env_id.S = EnvIdOf(e)
        /\ call.item.pipeline_id.S = Get(cc.pipeline_ids, Environments[e][1])[j])

\* no call to the table store failed
TableStoreSound == \A i \in 1..Len(ddb) : ddb[i].ok

\* C22: when a live run reaches its summary, an environment whose
\* configuration write failed has no configuration in the parameter store,
\* yet it stands in environment_ids, pipeline_ids and pipeline_key_maps of the
\* result with its generated identifiers; unless the rules step was skipped,
\* the download deployer was called exactly once for each of its pipelines,
\* and, the table store answering every call, one row was written for each
\* record of a deployable batch, carrying the identifier of that environment.
C22_UnstoredEnvironmentStillDeployed ==
    (pc = "m_summary" /\ ~dry_run) =>
        \A e \in 1..Len(Environments) :
            EnvWriteFailed(e) =>
                LET env_key == Environments[e][1]
                IN  /\ ~EnvWritten(e)
                    /\ Has(cc.result.environment_ids, env_key)
                    /\ Get(cc.result.environment_ids, env_key) = EnvIdOf(e)
                    /\ Has(cc.result.pipeline_ids, env_key)
                    /\ Len(Get(cc.result.pipeline_ids, env_key)) = Len(PipelinesOf(e))
                    /\ Has(cc.result.pipeline_key_maps, env_key)
                    /\ ~mn.skip_rules =>
                          \A j \in 1..Len(PipelinesOf(e)) :
                              /\ Cardinality(DownloadCallsFor(e, j)) = 1
                              /\ (TableStoreSound /\ Deployable(PipelinesOf(e)[j][1])) =>
                                    /\ Len(DownloadRowsOf(e, j))
                                          = Len(MatchingRecords(PipelinesOf(e)[j][1]))
                                    /\ DownloadRowsOf(e, j) # <<>>

C22_Witness ==
    /\ pc = "m_summary" /\ ~dry_run /\ ~mn.skip_rules
    /\ Len(Environments) = 2
    /\ EnvWriteFailed(2)
    /\ EnvWritten(1)
    /\ \E j \in 1..Len(PipelinesOf(2)) : DownloadRowsOf(2, j) # <<>>

\* the invocation that has just returned gave a result with counters
DownloadCounted ==
    pc = "dl_returned" /\ dl.result # None /\ "total_rules" \in DOMAIN dl.result
EnrichmentCounted ==
    pc = "en_returned" /\ en.result # None /\ "total_rules" \in DOMAIN en.result

\* successful_inserts + failed_inserts = total_rules, and in a dry run
\* nothing failed
CountersAddUp(result) ==
    /\ result.successful_inserts + result.failed_inserts = result.total_rules
    /\ dry_run => result.failed_inserts = 0 /\ result.successful_inserts = result.total_rules

\* C23: whenever an invocation of the download deployer or of the enrichment
\* deployer returns a result with counters, successful_inserts plus
\* failed_inserts equals total_rules, total_rules is the number of records
\* considered (for download, the records left by the pipeline filter; for
\* enrichment, the records of the file), in a dry run failed_inserts is 0 and
\* successful_inserts equals total_rules, and the success flag of the
\* enrichment deployer is true exactly when failed_inserts is 0.
C23_CountersAddUp ==
    /\ DownloadCounted =>
          /\ CountersAddUp(dl.result)
          /\ dl.result.total_rules = Len(FilteredRecords)
    /\ EnrichmentCounted =>
          /\ CountersAddUp(en.result)
          /\ en.result.total_rules = Len(EnrichmentRecords)
          /\ en.result.success = (en.result.failed_inserts = 0)

C23_Witness ==
    /\ EnrichmentCounted /\ ~dry_run
    /\ en.result.failed_inserts = 1
    /\ en.result.successful_inserts >= 1
    /\ ~en.result.success
    /\ dl.result # None /\ "total_rules" \in DOMAIN dl.result
    /\ dl.result.total_rules >= 1
    /\ dl.result.failed_inserts = 1

=============================================================================
